---- MODULE Spec2Model ----
(***************************************************************************)
(* Model of the request router and correction gate (scripts/agent.py,      *)
(* scripts/prefs.py) and of the calendar-hygiene planner and its two apply *)
(* paths (tools/calendar_hygiene).                                          *)
(*                                                                         *)
(* Text is a sequence of one-character strings, so that substring tests,   *)
(* case folding and the regular expressions of the source are computed     *)
(* character by character.                                                 *)
(***************************************************************************)
EXTENDS Integers, Sequences, FiniteSets, TLC

----------------------------------------------------------------------------
(* Text primitives: str.lower, str.strip, the `in` operator, \s, [a-z0-9]. *)

UPPER == <<"A","B","C","D","E","F","G","H","I","J","K","L","M",
           "N","O","P","Q","R","S","T","U","V","W","X","Y","Z">>
LOWER == <<"a","b","c","d","e","f","g","h","i","j","k","l","m",
           "n","o","p","q","r","s","t","u","v","w","x","y","z">>
DIGITS == {"0","1","2","3","4","5","6","7","8","9"}
HEXLETTERS == {"a","b","c","d","e","f"}

Range(f) == { f[i] : i \in DOMAIN f }

\* Python's None where a text is expected: no character sequence equals it.
NoneText == << "<None>" >>

\* the case folding of str.lower on the letters A-Z
LOWER_OF == [c \in Range(UPPER) |-> LOWER[CHOOSE i \in DOMAIN UPPER : UPPER[i] = c]]

ALNUM == Range(LOWER) \cup DIGITS

lower_char(c) == IF c \in DOMAIN LOWER_OF THEN LOWER_OF[c] ELSE c

lower(s) == [i \in 1..Len(s) |-> lower_char(s[i])]

is_space(c) == c \in {" ", "\t"}

is_quote(c) == c \in {"\"", "'"}

is_alnum(c) == c \in ALNUM

is_hex(c) == lower_char(c) \in DIGITS \cup HEXLETTERS

\* kw occurs in text starting at position i
at(text, i, kw) ==
    /\ i >= 1
    /\ i + Len(kw) - 1 <= Len(text)
    /\ SubSeq(text, i, i + Len(kw) - 1) = kw

\* kw in text
contains(text, kw) == \E i \in 1..(Len(text) + 1) : at(text, i, kw)

\* first index >= i of a non-space character, Len(text)+1 when there is none
skip_space(text, i) ==
    IF \E j \in i..Len(text) : ~is_space(text[j])
    THEN CHOOSE j \in i..Len(text) :
            /\ ~is_space(text[j])
            /\ \A k \in i..(j - 1) : is_space(text[k])
    ELSE Len(text) + 1

\* text.strip()
strip(text) ==
    LET first == skip_space(text, 1)
    IN  IF first > Len(text) THEN << >>
        ELSE LET last == CHOOSE j \in first..Len(text) :
                            /\ ~is_space(text[j])
                            /\ \A k \in (j + 1)..Len(text) : is_space(text[k])
             IN  SubSeq(text, first, last)

----------------------------------------------------------------------------
(* Keyword tables of scripts/agent.py.                                      *)

\* list wishes, show tool requests, list tool requests, show wishes
ROUTE_LIST ==
    { <<"l","i","s","t"," ","w","i","s","h","e","s">>,
      <<"s","h","o","w"," ","t","o","o","l"," ","r","e","q","u","e","s","t","s">>,
      <<"l","i","s","t"," ","t","o","o","l"," ","r","e","q","u","e","s","t","s">>,
      <<"s","h","o","w"," ","w","i","s","h","e","s">> }
\* pick, choose, what to build, next tool, triage, what should we build
ROUTE_PICK ==
    { <<"p","i","c","k">>,
      <<"c","h","o","o","s","e">>,
      <<"w","h","a","t"," ","t","o"," ","b","u","i","l","d">>,
      <<"n","e","x","t"," ","t","o","o","l">>,
      <<"t","r","i","a","g","e">>,
      <<"w","h","a","t"," ","s","h","o","u","l","d"," ","w","e"," ","b","u","i","l","d">> }
\* scaffold, start project, start a project, create tool, implement
ROUTE_SCAFFOLD ==
    { <<"s","c","a","f","f","o","l","d">>,
      <<"s","t","a","r","t"," ","p","r","o","j","e","c","t">>,
      <<"s","t","a","r","t"," ","a"," ","p","r","o","j","e","c","t">>,
      <<"c","r","e","a","t","e"," ","t","o","o","l">>,
      <<"i","m","p","l","e","m","e","n","t">> }
\* deploy, ship, push to vm
ROUTE_DEPLOY ==
    { <<"d","e","p","l","o","y">>,
      <<"s","h","i","p">>,
      <<"p","u","s","h"," ","t","o"," ","v","m">> }
\* search, find, lookup
ROUTE_SEARCH ==
    { <<"s","e","a","r","c","h">>,
      <<"f","i","n","d">>,
      <<"l","o","o","k","u","p">> }
\* apply|deploy|write|create|set|update|delete
MUTATING_TOOL_WORDS ==
    { <<"a","p","p","l","y">>,
      <<"d","e","p","l","o","y">>,
      <<"w","r","i","t","e">>,
      <<"c","r","e","a","t","e">>,
      <<"s","e","t">>,
      <<"u","p","d","a","t","e">>,
      <<"d","e","l","e","t","e">> }
\* edit, update, change, fix, correct, rename, set, add tag, remove tag
EDIT_NOTION_KEYWORDS ==
    { <<"e","d","i","t">>,
      <<"u","p","d","a","t","e">>,
      <<"c","h","a","n","g","e">>,
      <<"f","i","x">>,
      <<"c","o","r","r","e","c","t">>,
      <<"r","e","n","a","m","e">>,
      <<"s","e","t">>,
      <<"a","d","d"," ","t","a","g">>,
      <<"r","e","m","o","v","e"," ","t","a","g">> }
\* auto apply, auto-apply
PREFS_KEYWORDS ==
    { <<"a","u","t","o"," ","a","p","p","l","y">>,
      <<"a","u","t","o","-","a","p","p","l","y">> }
\* apply that, apply last preview, apply last correction
APPLY_LAST_LITERALS ==
    { <<"a","p","p","l","y"," ","t","h","a","t">>,
      <<"a","p","p","l","y"," ","l","a","s","t"," ","p","r","e","v","i","e","w">>,
      <<"a","p","p","l","y"," ","l","a","s","t"," ","c","o","r","r","e","c","t","i","o","n">> }
\* tool request, tool requests, friction log
CORRECTION_SUBJECTS ==
    { <<"t","o","o","l"," ","r","e","q","u","e","s","t">>,
      <<"t","o","o","l"," ","r","e","q","u","e","s","t","s">>,
      <<"f","r","i","c","t","i","o","n"," ","l","o","g">> }
\* fix, correct, change, update, edit
CORRECTION_WORDS ==
    { <<"f","i","x">>,
      <<"c","o","r","r","e","c","t">>,
      <<"c","h","a","n","g","e">>,
      <<"u","p","d","a","t","e">>,
      <<"e","d","i","t">> }
\* change|correct|fix|update
CORRECTION_VERBS ==
    { <<"c","h","a","n","g","e">>,
      <<"c","o","r","r","e","c","t">>,
      <<"f","i","x">>,
      <<"u","p","d","a","t","e">> }
\* wishes|tool requests|requests|for|about
SEARCH_NOUNS ==
    { <<"w","i","s","h","e","s">>,
      <<"t","o","o","l"," ","r","e","q","u","e","s","t","s">>,
      <<"r","e","q","u","e","s","t","s">>,
      <<"f","o","r">>,
      <<"a","b","o","u","t">> }
\* the router's stopword set
STOPWORDS ==
    { <<"t","h","e">>,
      <<"a","n","d">>,
      <<"o","r">>,
      <<"t","o">>,
      <<"a">>,
      <<"a","n">>,
      <<"o","f">>,
      <<"i","n">>,
      <<"f","o","r">>,
      <<"w","i","t","h">>,
      <<"i","s">>,
      <<"a","r","e">>,
      <<"b","e">>,
      <<"i","t">>,
      <<"t","h","i","s">>,
      <<"t","h","a","t">>,
      <<"m","y">>,
      <<"y","o","u","r">>,
      <<"f","r","o","m">>,
      <<"o","n">>,
      <<"b","y">>,
      <<"a","s">>,
      <<"a","t">>,
      <<"l","i","k","e">> }
KW_CALL == <<"c","a","l","l">>
KW_TO == <<"t","o">>
KW_NOTION == <<"n","o","t","i","o","n">>
KW_NOT == <<"n","o","t"," ">>
KW_BUT == <<" ","b","u","t"," ">>
KW_INSTEAD_OF == <<"i","n","s","t","e","a","d"," ","o","f">>
KW_MISINTERPRETED == <<"m","i","s","i","n","t","e","r","p","r","e","t","e","d">>
KW_PHYSICAL == <<"p","h","y","s","i","c","a","l">>
KW_ITEMS == <<"i","t","e","m","s">>
KW_ENABLE_1 == <<"e","n","a","b","l","e"," ","a","u","t","o"," ","a","p","p","l","y">>
KW_ENABLE_2 == <<"e","n","a","b","l","e"," ","a","u","t","o","-","a","p","p","l","y">>
KW_DISABLE_1 == <<"d","i","s","a","b","l","e"," ","a","u","t","o"," ","a","p","p","l","y">>
KW_DISABLE_2 == <<"d","i","s","a","b","l","e"," ","a","u","t","o","-","a","p","p","l","y">>
KW_THRESHOLD == <<"a","u","t","o"," ","a","p","p","l","y"," ","t","h","r","e","s","h","o","l","d"," ","t","o">>
KW_IN == <<"i","n">>
KW_TITLE == <<"t","i","t","l","e">>
KW_FROM == <<"f","r","o","m">>
KW_SET == <<"s","e","t">>
KW_ADD == <<"a","d","d">>
KW_STATUS == <<"s","t","a","t","u","s">>
KW_DESCRIPTION == <<"d","e","s","c","r","i","p","t","i","o","n">>
KW_TAG == <<"t","a","g">>
KW_TAGS == <<"t","a","g","s">>
\* rename|change|update|set
TITLE_VERBS ==
    { <<"r","e","n","a","m","e">>,
      <<"c","h","a","n","g","e">>,
      <<"u","p","d","a","t","e">>,
      <<"s","e","t">> }

----------------------------------------------------------------------------
(* Parameter extraction (agent.py _extract_quoted_phrases and friends).     *)

\* One match of (?:^|\s|:)["']([^"']+)["'] starting at p: the index of the
\* opening quote, or 0 when the expression does not match at p.
quote_open_at(text, p) ==
    IF p = 1 /\ p <= Len(text) /\ is_quote(text[p]) THEN p
    ELSE IF /\ p + 1 <= Len(text)
            /\ (is_space(text[p]) \/ text[p] = ":")
            /\ is_quote(text[p + 1]) THEN p + 1
    ELSE 0

\* index of the closing quote for an opening quote at q, 0 when [^"']+ is
\* empty or no closing quote follows
quote_close_at(text, q) ==
    IF /\ q + 2 <= Len(text)
       /\ ~is_quote(text[q + 1])
       /\ \E c \in (q + 2)..Len(text) : is_quote(text[c])
    THEN CHOOSE c \in (q + 2)..Len(text) :
            /\ is_quote(text[c])
            /\ \A k \in (q + 1)..(c - 1) : ~is_quote(text[k])
    ELSE 0

RECURSIVE quoted_from(_, _)
\* re.finditer from position p on: the stripped, non-empty groups in order
quoted_from(text, p) ==
    IF p > Len(text) THEN << >>
    ELSE LET q == quote_open_at(text, p)
             c == IF q = 0 THEN 0 ELSE quote_close_at(text, q)
         IN  IF c = 0 THEN quoted_from(text, p + 1)
             ELSE LET phrase == strip(SubSeq(text, q + 1, c - 1))
                  IN  (IF phrase = << >> THEN << >> ELSE << phrase >>)
                          \o quoted_from(text, c + 1)

extract_quoted_phrases(text) == quoted_from(text, 1)

\* a keyword of kws matches at i, case-insensitively
verb_at(text, i, kws) == \E kw \in kws : at(lower(text), i, kw)

verb_len(text, i, kws) ==
    Len(CHOOSE kw \in kws : at(lower(text), i, kw))

\* (?:search|find|lookup)\s+(?:wishes|tool requests|requests|for|about)?\s*(.+)
\* matched at verb position i: the text of group 1, NoneText when no match
search_group_at(text, i) ==
    IF ~verb_at(text, i, ROUTE_SEARCH) THEN NoneText
    ELSE LET j == i + verb_len(text, i, ROUTE_SEARCH)
         IN  IF ~(j <= Len(text) /\ is_space(text[j])) THEN NoneText
             ELSE LET r == skip_space(text, j)
                  IN  IF r > Len(text)
                      THEN (IF r - j >= 2 THEN << text[Len(text)] >> ELSE NoneText)
                      ELSE IF verb_at(text, r, SEARCH_NOUNS)
                      THEN LET a == r + verb_len(text, r, SEARCH_NOUNS)
                               b == skip_space(text, a)
                           IN  IF b <= Len(text) THEN SubSeq(text, b, Len(text))
                               ELSE IF a <= Len(text) THEN << text[Len(text)] >>
                               ELSE SubSeq(text, r, Len(text))
                      ELSE SubSeq(text, r, Len(text))

extract_search_query(text) ==
    LET quoted == extract_quoted_phrases(text)
        hits   == { i \in 1..Len(text) : search_group_at(text, i) # NoneText }
    IN  IF quoted # << >> THEN quoted[1]
        ELSE IF hits = {} THEN text
        ELSE LET first == CHOOSE i \in hits : \A k \in hits : i <= k
                 group == strip(search_group_at(text, first))
             IN  IF group # << >> THEN group ELSE text

\* a run of n hexadecimal digits starts at i
hex_run(text, i, n) ==
    /\ i + n - 1 <= Len(text)
    /\ \A k \in i..(i + n - 1) : is_hex(text[k])

\* 8-4-4-4-12 hexadecimal digits with hyphens start at i
uuid_at(text, i) ==
    /\ i + 35 <= Len(text)
    /\ hex_run(text, i, 8) /\ text[i + 8] = "-"
    /\ hex_run(text, i + 9, 4) /\ text[i + 13] = "-"
    /\ hex_run(text, i + 14, 4) /\ text[i + 18] = "-"
    /\ hex_run(text, i + 19, 4) /\ text[i + 23] = "-"
    /\ hex_run(text, i + 24, 12)

extract_page_id(text) ==
    LET uuids == { i \in 1..Len(text) : uuid_at(text, i) }
        bare  == { i \in 1..Len(text) : hex_run(text, i, 32) }
    IN  IF uuids # {}
        THEN LET i == CHOOSE i \in uuids : \A k \in uuids : i <= k
             IN  SubSeq(text, i, i + 35)
        ELSE IF bare # {}
        THEN LET i == CHOOSE i \in bare : \A k \in bare : i <= k
             IN  SubSeq(text, i, i + 31)
        ELSE NoneText

----------------------------------------------------------------------------
(* Correction parsing and the confidence scorer.                            *)

RECURSIVE tokens_from(_, _)
\* re.findall(r"[a-z0-9]+", text) from position p on (text already lowered)
tokens_from(text, p) ==
    IF p > Len(text) THEN << >>
    ELSE IF ~is_alnum(text[p]) THEN tokens_from(text, p + 1)
    ELSE LET e == IF \E k \in p..Len(text) : ~is_alnum(text[k])
                  THEN (CHOOSE k \in p..Len(text) :
                            /\ ~is_alnum(text[k])
                            /\ \A m \in p..(k - 1) : is_alnum(text[m])) - 1
                  ELSE Len(text)
         IN  << SubSeq(text, p, e) >> \o tokens_from(text, e + 1)

tokenize(text) ==
    SelectSeq(tokens_from(lower(text), 1), LAMBDA token : token \notin STOPWORDS)

simplify_query(text) ==
    LET tokens == tokenize(text)
    IN  IF KW_PHYSICAL \in Range(tokens) /\ KW_ITEMS \in Range(tokens)
        THEN KW_PHYSICAL \o << " " >> \o KW_ITEMS
        ELSE IF Len(tokens) >= 2 THEN tokens[1] \o << " " >> \o tokens[2]
        ELSE IF tokens # << >> THEN tokens[1] ELSE << >>

\* \s+to\s+(.+) matches from h on: the index of the "t", 0 when it does not
to_tail_at(text, h) ==
    IF ~(h <= Len(text) /\ is_space(text[h])) THEN 0
    ELSE LET t == skip_space(text, h)
         IN  IF /\ at(lower(text), t, KW_TO)
                /\ t + 3 <= Len(text)
                /\ is_space(text[t + 2])
             THEN t ELSE 0

\* \s+(.+?)\s+to\s+(.+) matched from j on: <<group 1, group 2>>, << >> when it
\* does not match.  The first \s+ gives characters back until a (lazy)
\* group 1 can end before some " to ".
lazy_to_groups(text, j) ==
    LET r == skip_space(text, j)
        starts == { g \in (j + 1)..r :
                        /\ g <= Len(text)
                        /\ \E h \in (g + 1)..Len(text) : to_tail_at(text, h) # 0 }
    IN  IF starts = {} THEN << >>
        ELSE LET g == CHOOSE x \in starts : \A y \in starts : x >= y
                 h == CHOOSE x \in (g + 1)..Len(text) :
                         /\ to_tail_at(text, x) # 0
                         /\ \A y \in (g + 1)..(x - 1) : to_tail_at(text, y) = 0
                 t == to_tail_at(text, h)
             IN  << SubSeq(text, g, h - 1), SubSeq(text, t + 2, Len(text)) >>

\* (?:change|correct|fix|update)\s+(.+?)\s+to\s+(.+) matched at verb position i
correction_groups_at(text, i) ==
    IF ~verb_at(text, i, CORRECTION_VERBS) THEN << >>
    ELSE lazy_to_groups(text, i + verb_len(text, i, CORRECTION_VERBS))

\* <<old, new>>; NoneText stands for None
parse_correction_request(request) ==
    LET quoted == extract_quoted_phrases(request)
        hits   == { i \in 1..Len(request) : correction_groups_at(request, i) # << >> }
    IN  IF Len(quoted) >= 2 THEN << quoted[1], quoted[2] >>
        ELSE IF hits = {} THEN << NoneText, NoneText >>
        ELSE LET first  == CHOOSE i \in hits : \A k \in hits : i <= k
                 groups == correction_groups_at(request, first)
             IN  << strip(groups[1]), strip(groups[2]) >>

\* Python truthiness of an optional text
truthy(text) == text # NoneText /\ text # << >>

\* re.sub of the first case-insensitive occurrence of old; new when none
replace_case_insensitive(text, old, new) ==
    LET hits == { i \in 1..(Len(text) + 1) : at(lower(text), i, lower(old)) }
    IN  IF hits = {} THEN new
        ELSE LET i == CHOOSE x \in hits : \A y \in hits : x <= y
             IN  SubSeq(text, 1, i - 1) \o new
                     \o SubSeq(text, i + Len(old), Len(text))

\* str(candidate.get("title") or "")
title_of(candidate) ==
    IF candidate.title = NoneText THEN << >> ELSE candidate.title

\* [has_title, title]: {"title": new_title, "properties": {}} or {"properties": {}}
build_correction_updates(candidate, old_text, new_text) ==
    IF truthy(new_text)
    THEN [has_title |-> TRUE,
          title |-> IF truthy(old_text)
                    THEN replace_case_insensitive(title_of(candidate), old_text, new_text)
                    ELSE new_text]
    ELSE [has_title |-> FALSE, title |-> << >>]

\* First index (from 0) of the pool whose item is the candidate object itself,
\* -1 for None.  Objects are told apart by their identity obj, not by value.
candidate_index(candidate, candidates) ==
    LET hits == { i \in DOMAIN candidates : candidates[i].obj = candidate.obj }
    IN  IF hits = {} THEN -1
        ELSE (CHOOSE i \in hits : \A k \in hits : i <= k) - 1

negation_pattern(low) ==
    \/ contains(low, KW_NOT) /\ contains(low, KW_BUT)
    \/ contains(low, KW_INSTEAD_OF)
    \/ contains(low, KW_MISINTERPRETED)

\* Scores are in hundredths: 45 stands for 0.45.
QUOTED_PHRASE_BONUS == 45
RECENCY_BONUS == 20
NEGATION_BONUS == 20
OVERLAP_BONUS == 15

Max(a, b) == IF a >= b THEN a ELSE b
Min(a, b) == IF a <= b THEN a ELSE b

\* _compute_confidence whose recency bonus reaches one position further
compute_confidence_top_three(request, candidate, candidates, old_phrase) ==
    LET title == title_of(candidate)
        low   == lower(request)
        index == candidate_index(candidate, candidates)
        overlap == Range(tokenize(request)) \cap Range(tokenize(title))
        fired == << truthy(old_phrase) /\ contains(lower(title), lower(old_phrase)),
                    index # -1 /\ index <= 2,
                    negation_pattern(low),
                    Cardinality(overlap) >= 2 >>
        rules == << [rule |-> "quoted_phrase_match", score |-> QUOTED_PHRASE_BONUS],
                    [rule |-> "recency_bonus", score |-> RECENCY_BONUS],
                    [rule |-> "negation_pattern", score |-> NEGATION_BONUS],
                    [rule |-> "keyword_overlap", score |-> OVERLAP_BONUS] >>
        add(k) == IF fired[k] THEN rules[k].score ELSE 0
        score == add(1) + add(2) + add(3) + add(4)
    IN  [score |-> Max(0, Min(score, 100)),
         breakdown |-> (IF fired[1] THEN << rules[1] >> ELSE << >>)
                       \o (IF fired[2] THEN << rules[2] >> ELSE << >>)
                       \o (IF fired[3] THEN << rules[3] >> ELSE << >>)
                       \o (IF fired[4] THEN << rules[4] >> ELSE << >>)]

\* [score, breakdown]
compute_confidence(request, candidate, candidates, old_phrase) ==
    LET title == title_of(candidate)
        low   == lower(request)
        index == candidate_index(candidate, candidates)
        overlap == Range(tokenize(request)) \cap Range(tokenize(title))
        fired == << truthy(old_phrase) /\ contains(lower(title), lower(old_phrase)),
                    index # -1 /\ index <= 1,
                    negation_pattern(low),
                    Cardinality(overlap) >= 2 >>
        rules == << [rule |-> "quoted_phrase_match", score |-> QUOTED_PHRASE_BONUS],
                    [rule |-> "recency_bonus", score |-> RECENCY_BONUS],
                    [rule |-> "negation_pattern", score |-> NEGATION_BONUS],
                    [rule |-> "keyword_overlap", score |-> OVERLAP_BONUS] >>
        add(k) == IF fired[k] THEN rules[k].score ELSE 0
        score == add(1) + add(2) + add(3) + add(4)
    IN  [score |-> Max(0, Min(score, 100)),
         breakdown |-> (IF fired[1] THEN << rules[1] >> ELSE << >>)
                       \o (IF fired[2] THEN << rules[2] >> ELSE << >>)
                       \o (IF fired[3] THEN << rules[3] >> ELSE << >>)
                       \o (IF fired[4] THEN << rules[4] >> ELSE << >>)]

----------------------------------------------------------------------------
(* Notion edit intent (agent.py _extract_edit_query, _parse_edit_intent).   *)

is_word(c) == is_alnum(lower_char(c)) \/ c = "_"

\* \b holds between positions p - 1 and p
word_boundary(text, p) ==
    LET before == p > 1 /\ p - 1 <= Len(text) /\ is_word(text[p - 1])
        after  == p >= 1 /\ p <= Len(text) /\ is_word(text[p])
    IN  before # after

\* length of the match of \b(in\s+notion|notion)\b at p, 0 when none
notion_match_len(text, p) ==
    LET low == lower(text)
        n == skip_space(text, p + 2)
    IN  IF /\ word_boundary(text, p)
           /\ at(low, p, KW_IN)
           /\ n > p + 2
           /\ at(low, n, KW_NOTION)
           /\ word_boundary(text, n + Len(KW_NOTION))
        THEN n + Len(KW_NOTION) - p
        ELSE IF /\ word_boundary(text, p)
                /\ at(low, p, KW_NOTION)
                /\ word_boundary(text, p + Len(KW_NOTION))
        THEN Len(KW_NOTION)
        ELSE 0

RECURSIVE drop_notion_from(_, _)
\* re.sub(r"\b(in\s+notion|notion)\b", "", text) from position p on
drop_notion_from(text, p) ==
    IF p > Len(text) THEN << >>
    ELSE LET n == notion_match_len(text, p)
         IN  IF n > 0 THEN drop_notion_from(text, p + n)
             ELSE << text[p] >> \o drop_notion_from(text, p + 1)

extract_edit_query(request) ==
    strip(drop_notion_from(extract_search_query(request), 1))

RECURSIVE strip_quote_chars(_)
\* text.strip("\"'")
strip_quote_chars(text) ==
    IF text = << >> THEN text
    ELSE IF is_quote(text[1]) THEN strip_quote_chars(Tail(text))
    ELSE IF is_quote(text[Len(text)])
    THEN strip_quote_chars(SubSeq(text, 1, Len(text) - 1))
    ELSE text

strip_quotes(text) == strip(strip_quote_chars(strip(text)))

\* \s+(.+) matched from j on: group 1, NoneText when it does not match
rest_after_space(text, j) ==
    LET r == skip_space(text, j)
    IN  IF ~(j <= Len(text) /\ is_space(text[j])) THEN NoneText
        ELSE IF r <= Len(text) THEN SubSeq(text, r, Len(text))
        ELSE IF r - j >= 2 THEN << text[Len(text)] >>
        ELSE NoneText

\* verb \s+ noun matched at i, case-insensitively: the index after the noun,
\* 0 when it does not match
verb_noun_end(text, i, verbs, noun) ==
    IF ~verb_at(text, i, verbs) THEN 0
    ELSE LET j == i + verb_len(text, i, verbs)
             n == skip_space(text, j)
         IN  IF n > j /\ at(lower(text), n, noun) THEN n + Len(noun) ELSE 0

\* verb \s+ noun \s+ (.+) matched at i: group 1, NoneText when it does not match
keyword_group_at(text, i, verbs, nouns) ==
    LET hits == { noun \in nouns :
                    /\ verb_noun_end(text, i, verbs, noun) # 0
                    /\ rest_after_space(text, verb_noun_end(text, i, verbs, noun))
                            # NoneText }
    IN  IF hits = {} THEN NoneText
        ELSE rest_after_space(text,
                verb_noun_end(text, i, verbs,
                              CHOOSE noun \in hits : \A x \in hits : Len(noun) >= Len(x)))

\* group of the leftmost position in found, NoneText when found is empty
leftmost_keyword_group(text, found, verbs, nouns) ==
    IF found = {} THEN NoneText
    ELSE keyword_group_at(text, CHOOSE i \in found : \A k \in found : i <= k,
                          verbs, nouns)

\* search for verb \s+ noun \s+ (.+): group 1 of the leftmost match, else NoneText
keyword_rest(text, verbs, nouns) ==
    leftmost_keyword_group(
        text,
        { i \in 1..Len(text) : keyword_group_at(text, i, verbs, nouns) # NoneText },
        verbs, nouns)

\* (?:\s+from)?\s+(.+?)\s+to\s+(.+) matched from e on, the optional part first
from_to_groups(text, e, f) ==
    IF f > e /\ at(lower(text), f, KW_FROM)
          /\ lazy_to_groups(text, f + Len(KW_FROM)) # << >>
    THEN lazy_to_groups(text, f + Len(KW_FROM))
    ELSE lazy_to_groups(text, e)

\* (?:rename|change|update|set)\s+title(?:\s+from)?\s+(.+?)\s+to\s+(.+)
\* matched at i: <<group 1, group 2>>, << >> when it does not match
title_groups_at(text, i) ==
    IF verb_noun_end(text, i, TITLE_VERBS, KW_TITLE) = 0 THEN << >>
    ELSE from_to_groups(text, verb_noun_end(text, i, TITLE_VERBS, KW_TITLE),
                        skip_space(text, verb_noun_end(text, i, TITLE_VERBS, KW_TITLE)))

leftmost_title_target(text, found) ==
    IF found = {} THEN NoneText
    ELSE title_groups_at(text, CHOOSE i \in found : \A k \in found : i <= k)[2]

\* group 2 of the leftmost match of the title pattern, else NoneText
title_rename_target(text) ==
    leftmost_title_target(text, { i \in 1..Len(text) : title_groups_at(text, i) # << >> })

RECURSIVE split_commas(_)
\* text.split(",")
split_commas(text) ==
    IF \E i \in DOMAIN text : text[i] = ","
    THEN LET i == CHOOSE x \in DOMAIN text :
                    text[x] = "," /\ \A y \in 1..(x - 1) : text[y] # ","
         IN  << SubSeq(text, 1, i - 1) >> \o split_commas(SubSeq(text, i + 1, Len(text)))
    ELSE << text >>

strip_each(parts) == [i \in DOMAIN parts |-> strip(parts[i])]

\* _strip_quotes(match.group(...)) when the pattern matched
matched_value(match) ==
    IF match = NoneText THEN NoneText ELSE strip_quotes(match)

\* [tag.strip() for tag in raw_tags.split(",") if tag.strip()]
tag_list(raw_tags) ==
    SelectSeq(strip_each(split_commas(raw_tags)), LAMBDA tag : tag # << >>)

\* the Domain property: set only with a non-empty tag list
domain_value(match) ==
    IF match = NoneText THEN NoneText
    ELSE IF tag_list(strip_quotes(match)) = << >> THEN NoneText
    ELSE tag_list(strip_quotes(match))

\* not updates.get("title") and not updates["properties"]
no_update_intent(updates) ==
    /\ ~truthy(updates.title)
    /\ updates.status = NoneText
    /\ updates.description = NoneText
    /\ updates.domain = NoneText

with_intent_notes(updates) ==
    [updates |-> updates, notes |-> no_update_intent(updates)]

\* [updates: [title, status, description, domain], notes]; NoneText marks a
\* key that is not in the updates object, notes is whether the no-intent
\* note is given
parse_edit_intent(request) ==
    with_intent_notes(
        [title |-> matched_value(title_rename_target(request)),
         status |-> matched_value(keyword_rest(request, {KW_SET}, {KW_STATUS})),
         description |-> matched_value(keyword_rest(request, {KW_SET}, {KW_DESCRIPTION})),
         domain |-> domain_value(keyword_rest(request, {KW_ADD, KW_SET},
                                              {KW_TAG, KW_TAGS}))])

----------------------------------------------------------------------------
(* Route predicates and _route.                                             *)

should_set_prefs(request) ==
    \E keyword \in PREFS_KEYWORDS : contains(lower(request), keyword)

should_correct_tool_request(request) ==
    /\ \E subject \in CORRECTION_SUBJECTS : contains(lower(request), subject)
    /\ \E word \in CORRECTION_WORDS : contains(lower(request), word)

should_edit_notion(request) ==
    /\ contains(lower(request), KW_NOTION)
    /\ \E keyword \in EDIT_NOTION_KEYWORDS : contains(lower(request), keyword)

is_tool_char(c) == is_alnum(lower_char(c)) \/ c \in {"_", "-"}

\* ^\s*call\s+([a-z0-9_-]+)\s*(\{.*\})?\s*$ with re.IGNORECASE:
\* [matched, tool (group 1), args (group 2 or NoneText)]
call_match(request) ==
    LET nomatch == [matched |-> FALSE, tool |-> NoneText, args |-> NoneText]
        c == skip_space(request, 1)
        n == skip_space(request, c + 4)
    IN  IF ~at(lower(request), c, KW_CALL) THEN nomatch
        ELSE IF ~(n > c + 4 /\ n <= Len(request) /\ is_tool_char(request[n]))
        THEN nomatch
        ELSE LET e == IF \E k \in n..Len(request) : ~is_tool_char(request[k])
                      THEN (CHOOSE k \in n..Len(request) :
                                /\ ~is_tool_char(request[k])
                                /\ \A m \in n..(k - 1) : is_tool_char(request[m])) - 1
                      ELSE Len(request)
                 rest == strip(SubSeq(request, e + 1, Len(request)))
             IN  IF rest = << >>
                 THEN [matched |-> TRUE, tool |-> SubSeq(request, n, e),
                       args |-> NoneText]
                 ELSE IF Len(rest) >= 2 /\ rest[1] = "{" /\ rest[Len(rest)] = "}"
                 THEN [matched |-> TRUE, tool |-> SubSeq(request, n, e),
                       args |-> rest]
                 ELSE nomatch

RouteResult(name, tool, args, query) ==
    [route |-> name, tool |-> tool, args |-> args, query |-> query]

\* _route with the order of two conditions exchanged: notion-edit intent is
\* tested before the deploy keywords
route_notion_before_deploy(request, force_scaffold) ==
    LET low == lower(request)
        call == call_match(request)
        only(name) == RouteResult(name, NoneText, NoneText, NoneText)
    IN  IF force_scaffold THEN only("scaffold")
        ELSE IF strip(low) \in APPLY_LAST_LITERALS THEN only("apply_last")
        ELSE IF should_set_prefs(request) THEN only("prefs")
        ELSE IF should_correct_tool_request(request) THEN only("correct_tool_request")
        ELSE IF call.matched
        THEN RouteResult("call", lower(call.tool), call.args, NoneText)
        ELSE IF should_edit_notion(request) THEN only("edit_notion")
        ELSE IF \E word \in ROUTE_DEPLOY : contains(low, word) THEN only("deploy")
        ELSE IF \E word \in ROUTE_SCAFFOLD : contains(low, word) THEN only("scaffold")
        ELSE IF \E word \in ROUTE_PICK : contains(low, word) THEN only("triage")
        ELSE IF \E word \in ROUTE_SEARCH : contains(low, word)
        THEN RouteResult("search", NoneText, NoneText, extract_search_query(request))
        ELSE IF \E word \in ROUTE_LIST : contains(low, word) THEN only("list")
        ELSE only("unknown")

route(request, force_scaffold) ==
    LET low == lower(request)
        call == call_match(request)
        only(name) == RouteResult(name, NoneText, NoneText, NoneText)
    IN  IF force_scaffold THEN only("scaffold")
        ELSE IF strip(low) \in APPLY_LAST_LITERALS THEN only("apply_last")
        ELSE IF should_set_prefs(request) THEN only("prefs")
        ELSE IF should_correct_tool_request(request) THEN only("correct_tool_request")
        ELSE IF call.matched
        THEN RouteResult("call", lower(call.tool), call.args, NoneText)
        ELSE IF \E word \in ROUTE_DEPLOY : contains(low, word) THEN only("deploy")
        ELSE IF should_edit_notion(request) THEN only("edit_notion")
        ELSE IF \E word \in ROUTE_SCAFFOLD : contains(low, word) THEN only("scaffold")
        ELSE IF \E word \in ROUTE_PICK : contains(low, word) THEN only("triage")
        ELSE IF \E word \in ROUTE_SEARCH : contains(low, word)
        THEN RouteResult("search", NoneText, NoneText, extract_search_query(request))
        ELSE IF \E word \in ROUTE_LIST : contains(low, word) THEN only("list")
        ELSE only("unknown")
----------------------------------------------------------------------------
(* Request texts the router is exercised on.                                *)

\* apply that
ReqApplyThat == <<"a","p","p","l","y"," ","t","h","a","t">>
\*   Apply Last Correction 
ReqApplyLastPadded == <<" "," ","A","p","p","l","y"," ","L","a","s","t"," ","C","o","r","r","e","c","t","i","o","n"," ">>
\* apply that now
ReqApplyThatNow == <<"a","p","p","l","y"," ","t","h","a","t"," ","n","o","w">>
\* enable auto apply
ReqEnableAuto == <<"e","n","a","b","l","e"," ","a","u","t","o"," ","a","p","p","l","y">>
\* disable auto-apply and deploy
ReqDisableAutoDeploy == <<"d","i","s","a","b","l","e"," ","a","u","t","o","-","a","p","p","l","y"," ","a","n","d"," ","d","e","p","l","o","y">>
\* set auto apply threshold to 0.5
ReqThreshold == <<"s","e","t"," ","a","u","t","o"," ","a","p","p","l","y"," ","t","h","r","e","s","h","o","l","d"," ","t","o"," ","0",".","5">>
\* call auto-apply
ReqCallAutoApply == <<"c","a","l","l"," ","a","u","t","o","-","a","p","p","l","y">>
\* fix tool request 'pantry ocr' to 'pantry scan'
ReqCorrectQuoted == <<"f","i","x"," ","t","o","o","l"," ","r","e","q","u","e","s","t"," ","'","p","a","n","t","r","y"," ","o","c","r","'"," ","t","o"," ","'","p","a","n","t","r","y"," ","s","c","a","n","'">>
\* update friction log: change Foo to Bar
ReqCorrectPlain == <<"u","p","d","a","t","e"," ","f","r","i","c","t","i","o","n"," ","l","o","g",":"," ","c","h","a","n","g","e"," ","F","o","o"," ","t","o"," ","B","a","r">>
\* call x {edit tool request}
ReqCallToolRequest == <<"c","a","l","l"," ","x"," ","{","e","d","i","t"," ","t","o","o","l"," ","r","e","q","u","e","s","t","}">>
\* call my_tool {"a":1}
ReqCallArgs == <<"c","a","l","l"," ","m","y","_","t","o","o","l"," ","{","\"","a","\"",":","1","}">>
\* call My_Tool
ReqCallUpper == <<"c","a","l","l"," ","M","y","_","T","o","o","l">>
\* call deploy_now
ReqCallDeploy == <<"c","a","l","l"," ","d","e","p","l","o","y","_","n","o","w">>
\* call apply that
ReqCallTrailing == <<"c","a","l","l"," ","a","p","p","l","y"," ","t","h","a","t">>
\* calling all tools
ReqCalling == <<"c","a","l","l","i","n","g"," ","a","l","l"," ","t","o","o","l","s">>
\* deploy notion update
ReqDeployNotion == <<"d","e","p","l","o","y"," ","n","o","t","i","o","n"," ","u","p","d","a","t","e">>
\* update the relationship notes in notion
ReqRelationship == <<"u","p","d","a","t","e"," ","t","h","e"," ","r","e","l","a","t","i","o","n","s","h","i","p"," ","n","o","t","e","s"," ","i","n"," ","n","o","t","i","o","n">>
\* Push to VM
ReqPushVm == <<"P","u","s","h"," ","t","o"," ","V","M">>
\* rename notion page
ReqRenameNotion == <<"r","e","n","a","m","e"," ","n","o","t","i","o","n"," ","p","a","g","e">>
\* edit notion and scaffold
ReqNotionScaffold == <<"e","d","i","t"," ","n","o","t","i","o","n"," ","a","n","d"," ","s","c","a","f","f","o","l","d">>
\* notion
ReqNotionOnly == <<"n","o","t","i","o","n">>
\* scaffold and triage
ReqScaffoldTriage == <<"s","c","a","f","f","o","l","d"," ","a","n","d"," ","t","r","i","a","g","e">>
\* implement search
ReqImplementSearch == <<"i","m","p","l","e","m","e","n","t"," ","s","e","a","r","c","h">>
\* what should we build next?
ReqWhatBuild == <<"w","h","a","t"," ","s","h","o","u","l","d"," ","w","e"," ","b","u","i","l","d"," ","n","e","x","t","?">>
\* pick and find
ReqPickFind == <<"p","i","c","k"," ","a","n","d"," ","f","i","n","d">>
\* search wishes pantry
ReqSearchWishes == <<"s","e","a","r","c","h"," ","w","i","s","h","e","s"," ","p","a","n","t","r","y">>
\* find 'pantry photo'
ReqFindQuoted == <<"f","i","n","d"," ","'","p","a","n","t","r","y"," ","p","h","o","t","o","'">>
\* lookup list wishes
ReqLookupList == <<"l","o","o","k","u","p"," ","l","i","s","t"," ","w","i","s","h","e","s">>
\* search
ReqSearchBare == <<"s","e","a","r","c","h">>
\* show tool requests
ReqShowRequests == <<"s","h","o","w"," ","t","o","o","l"," ","r","e","q","u","e","s","t","s">>
\* List Wishes
ReqListWishes == <<"L","i","s","t"," ","W","i","s","h","e","s">>
\* hello world
ReqHello == <<"h","e","l","l","o"," ","w","o","r","l","d">>
\* (the empty request)
ReqEmpty == << >>
\* tool request fix: not 'pantry ocr' but 'pantry scan'
ReqCorrectNegation == <<"t","o","o","l"," ","r","e","q","u","e","s","t"," ","f","i","x",":"," ","n","o","t"," ","'","p","a","n","t","r","y"," ","o","c","r","'"," ","b","u","t"," ","'","p","a","n","t","r","y"," ","s","c","a","n","'">>
\* misinterpreted
ReqMisinterpreted == <<"m","i","s","i","n","t","e","r","p","r","e","t","e","d">>
\* Fix pantry OCR
TitleFixPantry == <<"F","i","x"," ","p","a","n","t","r","y"," ","O","C","R">>
\* Email triage helper
TitleEmail == <<"E","m","a","i","l"," ","t","r","i","a","g","e"," ","h","e","l","p","e","r">>
\* pantry ocr
PhrasePantryOcr == <<"p","a","n","t","r","y"," ","o","c","r">>
\* PANTRY
PhrasePantryUpper == <<"P","A","N","T","R","Y">>
\* zzz
PhraseAbsent == <<"z","z","z">>
\* p1
PageId1 == <<"p","1">>
\* p2
PageId2 == <<"p","2">>
\* p3
PageId3 == <<"p","3">>

ROUTE_REQUESTS ==
    { ReqApplyThat,
      ReqApplyLastPadded,
      ReqApplyThatNow,
      ReqEnableAuto,
      ReqDisableAutoDeploy,
      ReqThreshold,
      ReqCallAutoApply,
      ReqCorrectQuoted,
      ReqCorrectPlain,
      ReqCallToolRequest,
      ReqCallArgs,
      ReqCallUpper,
      ReqCallDeploy,
      ReqCallTrailing,
      ReqCalling,
      ReqDeployNotion,
      ReqRelationship,
      ReqPushVm,
      ReqRenameNotion,
      ReqNotionScaffold,
      ReqNotionOnly,
      ReqScaffoldTriage,
      ReqImplementSearch,
      ReqWhatBuild,
      ReqPickFind,
      ReqSearchWishes,
      ReqFindQuoted,
      ReqLookupList,
      ReqSearchBare,
      ReqShowRequests,
      ReqListWishes,
      ReqHello,
      ReqEmpty }
----------------------------------------------------------------------------
(* Stage 3: the agent entry point (scripts/agent.py main) as a state        *)
(* machine over the preferences file, the last-preview file and a clock.    *)
(* Request texts, tool names and external payloads of the agent machine.    *)

\* fix tool request 123e4567-e89b-12d3-a456-426614174000: change ocr to scan
ReqCorrectPage == <<"f","i","x"," ","t","o","o","l"," ","r","e","q","u","e","s","t"," ","1","2","3","e","4","5","6","7","-","e","8","9","b","-","1","2","d","3","-","a","4","5","6","-","4","2","6","6","1","4","1","7","4","0","0","0",":"," ","c","h","a","n","g","e"," ","o","c","r"," ","t","o"," ","s","c","a","n">>
\* update tool request
ReqCorrectNoTarget == <<"u","p","d","a","t","e"," ","t","o","o","l"," ","r","e","q","u","e","s","t">>
\* disable auto-apply
ReqDisableAuto == <<"d","i","s","a","b","l","e"," ","a","u","t","o","-","a","p","p","l","y">>
\* set auto apply threshold to 0
ReqThresholdZero == <<"s","e","t"," ","a","u","t","o"," ","a","p","p","l","y"," ","t","h","r","e","s","h","o","l","d"," ","t","o"," ","0">>
\* deploy
ReqDeploy == <<"d","e","p","l","o","y">>
\* scaffold
ReqScaffold == <<"s","c","a","f","f","o","l","d">>
\* call tool_requests_latest
ReqCallLatest == <<"c","a","l","l"," ","t","o","o","l","_","r","e","q","u","e","s","t","s","_","l","a","t","e","s","t">>
\* call notion_update_page {"dry_run":false}
ReqCallUpdate == <<"c","a","l","l"," ","n","o","t","i","o","n","_","u","p","d","a","t","e","_","p","a","g","e"," ","{","\"","d","r","y","_","r","u","n","\"",":","f","a","l","s","e","}">>
\* call log_serendipity_event {"event_type":"nudge"}
ReqCallSerendipity == <<"c","a","l","l"," ","l","o","g","_","s","e","r","e","n","d","i","p","i","t","y","_","e","v","e","n","t"," ","{","\"","e","v","e","n","t","_","t","y","p","e","\"",":","\"","n","u","d","g","e","\"","}">>
\* notion: set status done
ReqEditStatus == <<"n","o","t","i","o","n",":"," ","s","e","t"," ","s","t","a","t","u","s"," ","d","o","n","e">>
\* rename notion page 123e4567-e89b-12d3-a456-426614174000
ReqEditPage == <<"r","e","n","a","m","e"," ","n","o","t","i","o","n"," ","p","a","g","e"," ","1","2","3","e","4","5","6","7","-","e","8","9","b","-","1","2","d","3","-","a","4","5","6","-","4","2","6","6","1","4","1","7","4","0","0","0">>
\* fix 'notion'
ReqEditNoQuery == <<"f","i","x"," ","'","n","o","t","i","o","n","'">>
\* notion_update_page
TOOL_NOTION_UPDATE_PAGE == <<"n","o","t","i","o","n","_","u","p","d","a","t","e","_","p","a","g","e">>
\* notion_get_page
TOOL_NOTION_GET_PAGE == <<"n","o","t","i","o","n","_","g","e","t","_","p","a","g","e">>
\* notion_search
TOOL_NOTION_SEARCH == <<"n","o","t","i","o","n","_","s","e","a","r","c","h">>
\* tool_requests_search
TOOL_REQUESTS_SEARCH == <<"t","o","o","l","_","r","e","q","u","e","s","t","s","_","s","e","a","r","c","h">>
\* tool_requests_latest
TOOL_REQUESTS_LATEST == <<"t","o","o","l","_","r","e","q","u","e","s","t","s","_","l","a","t","e","s","t">>
\* ./vm/deploy.sh
CMD_DEPLOY == <<".","/","v","m","/","d","e","p","l","o","y",".","s","h">>
\* scripts/triage.py
CMD_TRIAGE == <<"s","c","r","i","p","t","s","/","t","r","i","a","g","e",".","p","y">>
\* vm_server/tools
CMD_SCAFFOLD == <<"v","m","_","s","e","r","v","e","r","/","t","o","o","l","s">>
\* log_serendipity_event
TOOL_LOG_SERENDIPITY == <<"l","o","g","_","s","e","r","e","n","d","i","p","i","t","y","_","e","v","e","n","t">>
\* create_mood_memory
TOOL_CREATE_MOOD == <<"c","r","e","a","t","e","_","m","o","o","d","_","m","e","m","o","r","y">>
\* 123e4567-e89b-12d3-a456-426614174000
PageIdUuid == <<"1","2","3","e","4","5","6","7","-","e","8","9","b","-","1","2","d","3","-","a","4","5","6","-","4","2","6","6","1","4","1","7","4","0","0","0">>
\* Pantry inventory photo capture
TitleTriage == <<"P","a","n","t","r","y"," ","i","n","v","e","n","t","o","r","y"," ","p","h","o","t","o"," ","c","a","p","t","u","r","e">>
\* {}
EMPTY_ARGS == <<"{","}">>

\* Search results as the scorer and the handlers see them; obj is the identity of the object.
Candidate1 == [obj |-> 1, id |-> PageId1, title |-> TitleFixPantry]
Candidate2 == [obj |-> 2, id |-> PageId2, title |-> TitleEmail]
Candidate3 == [obj |-> 3, id |-> PageId3, title |-> NoneText]

----------------------------------------------------------------------------
(* Preferences (scripts/prefs.py).  A JSON object is a function from its    *)
(* keys; auto_apply_threshold is held in hundredths.                        *)

DEFAULT_ENABLED == FALSE
DEFAULT_THRESHOLD == 92
DEFAULT_SCOPE == << "notion_corrections" >>

DEFAULT_PREFS ==
    [auto_apply_enabled |-> DEFAULT_ENABLED,
     auto_apply_threshold |-> DEFAULT_THRESHOLD,
     auto_apply_scope |-> DEFAULT_SCOPE]

\* dict(a); .update(b)
dict_update(a, b) ==
    [k \in DOMAIN a \cup DOMAIN b |-> IF k \in DOMAIN b THEN b[k] ELSE a[k]]

\* memory/prefs.json: absent, unparseable, or holding a JSON object
NoFile == [exists |-> FALSE, valid |-> TRUE, data |-> << >>]
BrokenFile == [exists |-> TRUE, valid |-> FALSE, data |-> << >>]
file_with(data) == [exists |-> TRUE, valid |-> TRUE, data |-> data]

\* the file after save_prefs(prefs)
save_prefs(prefs) == file_with(prefs)

\* mutant: every load starts over from the defaults
load_prefs_resets(file) ==
    [prefs |-> DEFAULT_PREFS, file |-> save_prefs(DEFAULT_PREFS)]

\* load_prefs() on a readable file: [prefs, file]; it writes back what it read
load_prefs(file) ==
    IF ~file.exists
    THEN [prefs |-> DEFAULT_PREFS, file |-> save_prefs(DEFAULT_PREFS)]
    ELSE LET merged == dict_update(DEFAULT_PREFS, file.data)
         IN  [prefs |-> merged, file |-> save_prefs(merged)]

\* json.loads raises on the file's text
load_prefs_raises(file) == file.exists /\ ~file.valid

is_number_char(c) == c \in DIGITS \/ c = "."

digit_value(c) ==
    CASE c = "0" -> 0 [] c = "1" -> 1 [] c = "2" -> 2 [] c = "3" -> 3 [] c = "4" -> 4
      [] c = "5" -> 5 [] c = "6" -> 6 [] c = "7" -> 7 [] c = "8" -> 8 [] c = "9" -> 9

RECURSIVE digits_value(_)
digits_value(text) ==
    IF text = << >> THEN 0
    ELSE 10 * digits_value(SubSeq(text, 1, Len(text) - 1)) + digit_value(text[Len(text)])

\* float(text) for text over [0-9.], in hundredths (further decimals are cut);
\* -1 stands for ValueError
float_hundredths(text) ==
    LET dots == { i \in DOMAIN text : text[i] = "." }
    IN  IF Cardinality(dots) > 1 \/ Cardinality(dots) = Len(text) THEN -1
        ELSE IF dots = {} THEN 100 * digits_value(text)
        ELSE LET d == CHOOSE i \in dots : TRUE
                 frac == SubSeq(text, d + 1, Len(text)) \o << "0", "0" >>
             IN  100 * digits_value(SubSeq(text, 1, d - 1))
                 + digits_value(SubSeq(frac, 1, 2))

\* group 1 of re.search(r"auto apply threshold to\s*([0-9.]+)", lower),
\* NoneText when there is no match
threshold_text(low) ==
    LET start(i) == skip_space(low, i + Len(KW_THRESHOLD))
        found == { i \in 1..Len(low) :
                      /\ at(low, i, KW_THRESHOLD)
                      /\ start(i) <= Len(low)
                      /\ is_number_char(low[start(i)]) }
    IN  IF found = {} THEN NoneText
        ELSE LET s == start(CHOOSE i \in found : \A k \in found : i <= k)
                 e == CHOOSE x \in s..Len(low) :
                         /\ \A y \in s..x : is_number_char(low[y])
                         /\ x = Len(low) \/ ~is_number_char(low[x + 1])
             IN  SubSeq(low, s, e)

\* what _parse_prefs_request reads off the request text: the two keyword
\* tests and the threshold literal (NoneText without a match)
prefs_intent(request) ==
    [enable |-> contains(lower(request), KW_ENABLE_1)
                    \/ contains(lower(request), KW_ENABLE_2),
     disable |-> contains(lower(request), KW_DISABLE_1)
                    \/ contains(lower(request), KW_DISABLE_2),
     threshold |-> threshold_text(lower(request))]

set_enabled(prefs, wanted, value) ==
    IF wanted THEN dict_update(prefs, [auto_apply_enabled |-> value]) ELSE prefs

\* float(match.group(1)), falling back to the stored threshold on ValueError
threshold_value(text, prefs) ==
    IF float_hundredths(text) = -1 THEN prefs.auto_apply_threshold
    ELSE float_hundredths(text)

set_threshold(updated, text, prefs) ==
    IF text = NoneText THEN updated
    ELSE dict_update(updated,
            [auto_apply_threshold |-> Max(0, Min(threshold_value(text, prefs), 100))])

\* the updates of _parse_prefs_request applied in the order of the code
apply_prefs_intent(intent, prefs) ==
    set_threshold(set_enabled(set_enabled(prefs, intent.enable, TRUE),
                              intent.disable, FALSE),
                  intent.threshold, prefs)

parse_prefs_request(request, prefs) == apply_prefs_intent(prefs_intent(request), prefs)

----------------------------------------------------------------------------
(* The last preview (memory/last_preview.json) and its freshness.           *)

PREVIEW_TTL_HOURS == 24

NoUpdates == [title |-> NoneText, status |-> NoneText,
              description |-> NoneText, domain |-> NoneText]

\* the updates object of a correction: {"title": ..., "properties": {}}
updates_object(built) ==
    [NoUpdates EXCEPT !.title = IF built.has_title THEN built.title ELSE NoneText]

NoPreview == [exists |-> FALSE, type |-> "", page_id |-> NoneText,
              updates |-> NoUpdates, timestamp |-> -1, confidence |-> 0]

\* the file after _save_last_preview(payload)
save_last_preview(payload) ==
    [exists |-> TRUE, type |-> payload.type, page_id |-> payload.page_id,
     updates |-> payload.updates, timestamp |-> payload.timestamp,
     confidence |-> payload.confidence]

\* mutant of the freshness window
preview_is_fresh_two_days(timestamp, now) ==
    IF timestamp = -1 THEN FALSE
    ELSE now - timestamp <= 2 * PREVIEW_TTL_HOURS

\* a timestamp is an hour count; -1 is a text datetime.fromisoformat rejects
preview_is_fresh(timestamp, now) ==
    IF timestamp = -1 THEN FALSE
    ELSE now - timestamp <= PREVIEW_TTL_HOURS

----------------------------------------------------------------------------
(* One invocation of main: inputs, external outcomes and the envelope.      *)

\* argparse flags of one invocation
args_of(flags) ==
    [dry_run |-> "--dry-run" \in flags, execute |-> "--execute" \in flags,
     scaffold |-> "--scaffold" \in flags, auto_apply |-> "--auto-apply" \in flags,
     force |-> "--force" \in flags]

ARGS ==
    { args_of(flags) : flags \in
        { {}, {"--execute"}, {"--execute", "--dry-run"}, {"--execute", "--force"},
          {"--execute", "--auto-apply"}, {"--scaffold"} } }

\* dry_run = True; if args.execute: False; if args.dry_run: True
resolve_dry_run(args) ==
    LET after_execute == IF args.execute THEN FALSE ELSE TRUE
    IN  IF args.dry_run THEN TRUE ELSE after_execute

AGENT_REQUESTS ==
    { ReqShowRequests, ReqSearchWishes, ReqWhatBuild,
      ReqEnableAuto, ReqThreshold, ReqThresholdZero, ReqApplyThat,
      ReqCorrectQuoted, ReqCorrectNegation, ReqCorrectPage, ReqCorrectNoTarget,
      ReqEditStatus, ReqEditPage, ReqEditNoQuery,
      ReqDeploy, ReqScaffold,
      ReqCallLatest, ReqCallUpdate, ReqCallSerendipity, ReqHello }

\* MUTATING_TOOL_RE.search(tool)
mutating_tool(tool) == \E word \in MUTATING_TOOL_WORDS : contains(tool, word)

\* one subprocess the agent starts: an MCP tool through ./vm/mcp_curl.sh, a
\* script, or the scaffold writer; dry_run is "true", "false" or "absent"
call_of(tool, page_id, query, updates, dry_run) ==
    [tool |-> tool, page_id |-> page_id, query |-> query,
     updates |-> updates, dry_run |-> dry_run]

flag_text(flag) == IF flag THEN "true" ELSE "false"

\* outcomes of a subprocess behind _run_mcp_tool
MCP_OUTCOMES == {"ok", "nonzero", "bad_json"}

\* exit statuses of a subprocess behind _run_command
RETURNCODES == {0, 1}

\* the running state of one handler; found is the number of items the last
\* search answered with (-1 before any search has answered)
new_run(prefs, preview) ==
    [commands |-> << >>, calls |-> << >>, errors |-> << >>, next_actions |-> << >>,
     prefs |-> prefs, preview |-> preview, has_triage |-> FALSE,
     returncode |-> -1, confidence |-> -1, threshold |-> -1, allow_auto |-> FALSE,
     candidates |-> -1, files_created |-> << >>, intent_notes |-> FALSE,
     found |-> -1]

\* the envelope main prints and its exit status (agent.py 821-837); now is
\* the hour of the invocation
finish(route_name, args, now, run) ==
    LET reproduce == IF run.commands # << >> THEN << "Reproduce: last command" >>
                     ELSE << >>
        triage == IF run.has_triage THEN << "Reproduce: triage command" >> ELSE << >>
    IN  [route |-> route_name, args |-> args, now |-> now,
         dry_run |-> resolve_dry_run(args),
         envelope |-> TRUE,
         commands |-> run.commands, calls |-> run.calls,
         errors |-> run.errors,
         next_actions |-> run.next_actions \o reproduce \o triage,
         exit_code |-> IF run.errors = << >> THEN 0 ELSE 1,
         returncode |-> run.returncode,
         confidence |-> run.confidence, threshold |-> run.threshold,
         allow_auto |-> run.allow_auto, candidates |-> run.candidates,
         files_created |-> run.files_created, intent_notes |-> run.intent_notes,
         found |-> run.found]

\* an exception leaves main: no envelope, the interpreter exits with status 1
escaped(route_name, args, now) ==
    [finish(route_name, args, now, new_run(NoFile, NoPreview))
        EXCEPT !.envelope = FALSE, !.exit_code = 1]

\* before the first invocation
NoOutput == [finish("idle", args_of({}), 0, new_run(NoFile, NoPreview))
                EXCEPT !.envelope = FALSE]

----------------------------------------------------------------------------
(* Steps of a handler.                                                      *)

add_command(run, tool) == [run EXCEPT !.commands = Append(@, tool)]

add_call(run, call) == [run EXCEPT !.calls = Append(@, call)]

add_next_action(run, text) == [run EXCEPT !.next_actions = Append(@, text)]

\* except Exception as exc: errors.append(str(exc))
raise(run, message) == [run EXCEPT !.errors = Append(@, message)]

raised(run) == run.errors # << >>

\* the RuntimeError of _run_mcp_tool / _parse_mcp_response for an outcome
mcp_error(outcome) ==
    IF outcome = "nonzero" THEN "MCP tool call failed" ELSE "Invalid MCP JSON output"

\* _run_mcp_tool(tool, args): the subprocess runs, then a failure raises
run_mcp_tool(run, call, outcome) ==
    IF outcome = "ok" THEN add_call(run, call)
    ELSE raise(add_call(run, call), mcp_error(outcome))

\* _run_command(cmd): the subprocess runs; its exit status is only recorded
run_command(run, call, returncode) ==
    [add_call(run, call) EXCEPT !.returncode = returncode]

----------------------------------------------------------------------------
(* Handlers of the read-only and local routes (agent.py 548-569, 782-817).  *)

handle_list(run, returncode) ==
    run_command(add_command(run, TOOL_REQUESTS_LATEST),
                call_of(TOOL_REQUESTS_LATEST, NoneText, NoneText, NoUpdates, "absent"),
                returncode)

\* info is the request_row of the request text
handle_search(run, info, returncode) ==
    LET query == IF truthy(info.route.query) THEN info.route.query ELSE info.request
    IN  run_command(add_command(run, TOOL_REQUESTS_SEARCH),
                    call_of(TOOL_REQUESTS_SEARCH, NoneText, query, NoUpdates, "absent"),
                    returncode)

\* outcomes of scripts/triage.py: a selection, no selection, a failure
TRIAGE_OUTCOMES == {"selected", "nothing", "nonzero"}

\* _run_triage(dry_run) (agent.py 295-309)
run_triage(run, dry_run, outcome) ==
    LET ran == add_call(run, call_of(CMD_TRIAGE, NoneText, NoneText, NoUpdates,
                                     flag_text(dry_run)))
    IN  IF outcome = "nonzero" THEN raise(ran, "triage failed")
        ELSE [ran EXCEPT !.has_triage = TRUE]

handle_triage(run, dry_run, outcome) ==
    LET ran == run_triage(run, dry_run, outcome)
    IN  IF raised(ran) THEN ran
        ELSE IF dry_run
        THEN add_next_action(ran, "Re-run with --execute to write spec/plan files.")
        ELSE ran

handle_prefs(run, info) ==
    LET updated_prefs == apply_prefs_intent(info.prefs_intent, run.prefs.data)
    IN  add_next_action([run EXCEPT !.prefs = save_prefs(updated_prefs)],
                        "Prefs saved. Re-run with your request.")

handle_deploy(run, dry_run, returncode) ==
    LET echoed == add_command(run, CMD_DEPLOY)
    IN  IF dry_run THEN add_next_action(echoed, "Re-run with --execute to deploy.")
        ELSE run_command(echoed,
                         call_of(CMD_DEPLOY, NoneText, NoneText, NoUpdates, "absent"),
                         returncode)

\* outcomes of _scaffold_tool: all files written, the module already exists,
\* the module written but vm_server/tools/registry.py missing
SCAFFOLD_OUTCOMES == {"created", "exists", "no_registry"}

\* _scaffold_tool(title) (agent.py 450-515)
scaffold_tool(run, outcome) ==
    IF outcome = "exists" THEN raise(run, "Tool already exists")
    ELSE LET wrote == add_call(run, call_of(CMD_SCAFFOLD, NoneText, TitleTriage,
                                            NoUpdates, "false"))
         IN  IF outcome = "no_registry"
             THEN raise(wrote, "Missing registry")
             ELSE [wrote EXCEPT !.files_created = << "module", "registry", "spec", "plan" >>]

handle_scaffold(run, dry_run, triage, outcome) ==
    LET ran == run_triage(run, TRUE, triage)
    IN  IF raised(ran) THEN ran
        ELSE IF triage # "selected"
        THEN raise(ran, "No triage selection available for scaffolding.")
        ELSE IF dry_run
        THEN add_next_action(ran, "Re-run with --execute to scaffold the tool.")
        ELSE scaffold_tool(ran, outcome)

handle_call(run, info, dry_run, returncode) ==
    LET meta == info.route
        tool == meta.tool
        args_json == IF truthy(meta.args) THEN meta.args ELSE EMPTY_ARGS
        echoed == add_command(run, tool)
        call == call_of(tool, NoneText, args_json, NoUpdates, "absent")
    IN  IF ~truthy(tool) THEN raise(run, "Missing tool name for call route.")
        ELSE IF info.mutating
        THEN IF dry_run
             THEN add_next_action(echoed, "Re-run with --execute to call mutating tool.")
             ELSE run_command(echoed, call, returncode)
        ELSE run_command(echoed, call, returncode)

handle_unknown(run) ==
    add_next_action(add_next_action(run, "Try: what should we build next?"),
                    "Or: show tool requests")

----------------------------------------------------------------------------
(* What the pure parsers of agent.py make of a request text.  The handlers  *)
(* take these results as their argument info.                               *)

\* the page summary notion_get_page answers with
PageSummary == [obj |-> 1, id |-> PageIdUuid, title |-> TitleFixPantry]

\* the item lists a correction can settle on one target with
TARGET_LISTS == { << Candidate1 >>, << PageSummary >> }

\* lines 660-664: the confidence of items[0] and the updates built for it
score_of(request, correction, items) ==
    [confidence |-> compute_confidence(request, items[1], items, correction[1]).score,
     updates |-> updates_object(build_correction_updates(items[1], correction[1],
                                                         correction[2]))]

request_row(request) ==
    [request |-> request,
     route |-> route(request, FALSE),
     forced |-> route(request, TRUE),
     correction |-> parse_correction_request(request),
     simplified |-> simplify_query(parse_correction_request(request)[2]),
     page_id |-> extract_page_id(request),
     search_query |-> extract_search_query(request),
     edit_query |-> extract_edit_query(request),
     edit_intent |-> parse_edit_intent(request),
     prefs_intent |-> prefs_intent(request),
     mutating |-> mutating_tool(route(request, FALSE).tool),
     scores |-> [items \in TARGET_LISTS |->
                    score_of(request, parse_correction_request(request), items)]]

----------------------------------------------------------------------------
(* Handlers that reach Notion (agent.py 570-781).                           *)

update_call(page_id, updates, dry_run) ==
    call_of(TOOL_NOTION_UPDATE_PAGE, page_id, NoneText, updates, flag_text(dry_run))

\* command echoed, then _run_mcp_tool("notion_update_page", payload)
send_update(run, page_id, updates, dry_run, outcome) ==
    run_mcp_tool(add_command(run, TOOL_NOTION_UPDATE_PAGE),
                 update_call(page_id, updates, dry_run), outcome)

\* mutant: the preview is consumed, the slot is cleared once it was sent
handle_apply_last_consumes(run, args, dry_run, now, outcome) ==
    LET preview == run.preview
    IN  IF dry_run
        THEN add_next_action(run, "Re-run with --execute to apply the last preview.")
        ELSE IF ~preview.exists THEN raise(run, "No last preview found.")
        ELSE IF preview.type # "notion_correction"
        THEN raise(run, "Last preview is not a Notion correction.")
        ELSE IF ~preview_is_fresh(preview.timestamp, now) /\ ~args.force
        THEN raise(run, "Last preview is older than 24h. Re-run with --force.")
        ELSE [send_update(run, preview.page_id, preview.updates, FALSE, outcome)
                EXCEPT !.preview = NoPreview]

\* lines 570-594: the "apply that" branch
handle_apply_last(run, args, dry_run, now, outcome) ==
    LET preview == run.preview
    IN  IF dry_run
        THEN add_next_action(run, "Re-run with --execute to apply the last preview.")
        ELSE IF ~preview.exists THEN raise(run, "No last preview found.")
        ELSE IF preview.type # "notion_correction"
        THEN raise(run, "Last preview is not a Notion correction.")
        ELSE IF ~preview_is_fresh(preview.timestamp, now) /\ ~args.force
        THEN raise(run, "Last preview is older than 24h. Re-run with --force.")
        ELSE send_update(run, preview.page_id, preview.updates, FALSE, outcome)

\* the answer of one tool_requests_search / notion_search call
search_answer(status, items) == [status |-> status, items |-> items]

\* _run_mcp_tool(search tool, {"query": query, ...}), then the command echoed:
\* [run, items]
run_search(run, tool, query, answer) ==
    LET ran == run_mcp_tool(run, call_of(tool, NoneText, query, NoUpdates, "absent"),
                            answer.status)
    IN  IF raised(ran) THEN [run |-> ran, items |-> << >>]
        ELSE [run |-> [add_command(ran, tool) EXCEPT !.found = Len(answer.items)],
              items |-> answer.items]

\* lines 596-639: the items a correction works on, [run, items]
correction_items(run, info, world) ==
    LET old_text == info.correction[1]
        new_text == info.correction[2]
        query == IF truthy(old_text) THEN old_text ELSE info.search_query
        simplified == info.simplified
        first == run_search(run, TOOL_REQUESTS_SEARCH, query, world.searches[1])
        second == IF raised(first.run) \/ first.items # << >> \/ ~truthy(new_text)
                  THEN first
                  ELSE run_search(first.run, TOOL_REQUESTS_SEARCH, new_text,
                                  world.searches[2])
        third == IF raised(second.run) \/ second.items # << >> \/ ~truthy(new_text)
                 THEN second
                 ELSE IF simplified # << >> /\ simplified # new_text
                 THEN run_search(second.run, TOOL_REQUESTS_SEARCH, simplified,
                                 world.searches[3])
                 ELSE second
        fetched == run_mcp_tool(add_command(run, TOOL_NOTION_GET_PAGE),
                                call_of(TOOL_NOTION_GET_PAGE, info.page_id, NoneText,
                                        NoUpdates, "absent"),
                                world.page)
    IN  IF truthy(info.page_id)
        THEN [run |-> fetched,
              items |-> IF raised(fetched) THEN << >> ELSE << PageSummary >>]
        ELSE third

FALLBACK_THRESHOLD == 92

\* float(prefs.get("auto_apply_threshold") or 0.92)
threshold_of(prefs) ==
    IF prefs.auto_apply_threshold = 0 THEN FALLBACK_THRESHOLD
    ELSE prefs.auto_apply_threshold

\* lines 681-688
allow_auto(prefs, args) ==
    /\ prefs.auto_apply_enabled
    /\ args.auto_apply
    /\ "notion_corrections" \in Range(prefs.auto_apply_scope)

\* lines 660-736: one target
correct_single(run, info, args, dry_run, now, items, outcome) ==
    LET candidate == items[1]
        confidence == info.scores[items].confidence
        updates == info.scores[items].updates
        prefs == run.prefs.data
        threshold == threshold_of(prefs)
        scored == [run EXCEPT !.confidence = confidence, !.threshold = threshold,
                              !.allow_auto = allow_auto(prefs, args)]
        previewed == send_update(scored, candidate.id, updates, TRUE, outcome)
        saved == [previewed EXCEPT !.preview =
                    save_last_preview([type |-> "notion_correction",
                                       page_id |-> candidate.id,
                                       updates |-> updates,
                                       timestamp |-> now,
                                       confidence |-> confidence])]
    IN  IF dry_run
        THEN IF raised(previewed) THEN previewed
             ELSE IF confidence >= threshold
             THEN add_next_action(
                      add_next_action(saved, "High confidence. To apply: apply that --execute"),
                      "Or rerun with --execute --auto-apply.")
             ELSE add_next_action(saved,
                      "Confidence below threshold. Re-run with --execute --force to apply.")
        ELSE IF allow_auto(prefs, args) /\ confidence < threshold /\ ~args.force
        THEN IF raised(previewed) THEN previewed
             ELSE add_next_action(previewed,
                      "Confidence below threshold. Re-run with --execute --force to apply.")
        ELSE send_update(scored, candidate.id, updates, FALSE, outcome)

handle_correct(run, info, args, dry_run, now, world) ==
    LET found == correction_items(run, info, world)
        items == found.items
    IN  IF ~truthy(info.correction[2])
        THEN raise(run, "No correction target found. Use: change 'X' to 'Y'.")
        ELSE IF raised(found.run) THEN found.run
        ELSE IF items = << >>
        THEN add_next_action([found.run EXCEPT !.candidates = 0],
                             "No matches. Try quoting the exact title.")
        ELSE IF Len(items) > 1 /\ ~truthy(info.page_id)
        THEN add_next_action([found.run EXCEPT !.candidates = Len(items)],
                             "Multiple matches found. Re-run with a page URL or id.")
        ELSE correct_single(found.run, info, args, dry_run, now, items, world.update)

\* mutant: several matches are settled by taking the first
edit_target_takes_first(run, info, world) ==
    LET found == run_search(run, TOOL_NOTION_SEARCH, info.edit_query, world.searches[1])
        items == found.items
    IN  IF truthy(info.page_id) THEN [run |-> run, page_id |-> info.page_id]
        ELSE IF info.edit_query = << >>
        THEN [run |-> raise(run, "No Notion target found. Provide a page title or URL."),
              page_id |-> NoneText]
        ELSE IF raised(found.run) THEN [run |-> found.run, page_id |-> NoneText]
        ELSE IF items = << >>
        THEN [run |-> add_next_action([found.run EXCEPT !.candidates = 0],
                         "No matches. Try quoting the page title or paste the URL."),
              page_id |-> NoneText]
        ELSE [run |-> found.run, page_id |-> items[1].id]

\* lines 741-758: [run, page_id]
edit_target(run, info, world) ==
    LET found == run_search(run, TOOL_NOTION_SEARCH, info.edit_query, world.searches[1])
        items == found.items
    IN  IF truthy(info.page_id) THEN [run |-> run, page_id |-> info.page_id]
        ELSE IF info.edit_query = << >>
        THEN [run |-> raise(run, "No Notion target found. Provide a page title or URL."),
              page_id |-> NoneText]
        ELSE IF raised(found.run) THEN [run |-> found.run, page_id |-> NoneText]
        ELSE IF items = << >>
        THEN [run |-> add_next_action([found.run EXCEPT !.candidates = 0],
                         "No matches. Try quoting the page title or paste the URL."),
              page_id |-> NoneText]
        ELSE IF Len(items) > 1
        THEN [run |-> add_next_action([found.run EXCEPT !.candidates = Len(items)],
                         "Multiple matches found. Re-run with a page URL or id."),
              page_id |-> NoneText]
        ELSE [run |-> found.run, page_id |-> items[1].id]

handle_edit_notion(run, info, dry_run, world) ==
    LET intent == info.edit_intent
        target == edit_target(run, info, world)
        noted == [target.run EXCEPT !.intent_notes = intent.notes]
        page_id == target.page_id
        fetched == run_mcp_tool(add_command(noted, TOOL_NOTION_GET_PAGE),
                                call_of(TOOL_NOTION_GET_PAGE, page_id, NoneText,
                                        NoUpdates, "absent"),
                                world.page)
        updated == send_update(noted, page_id, intent.updates, dry_run, world.update)
    IN  IF raised(target.run) THEN target.run
        ELSE IF ~truthy(page_id) THEN noted
        ELSE IF intent.notes /\ dry_run
        THEN IF raised(fetched) THEN fetched
             ELSE add_next_action(fetched,
                      "Specify a target field (title/status/description/tag) to update.")
        ELSE IF raised(updated) THEN updated
        ELSE IF dry_run
        THEN add_next_action(updated, "Re-run with --execute to apply the update.")
        ELSE updated

----------------------------------------------------------------------------
(* Calendar hygiene: texts and times                                        *)
(* (src/tools/calendar_hygiene/calendar_hygiene.py, mcp_wrapper.py).        *)

MEDICAL_KEYWORDS ==
    << <<"d","o","c","t","o","r">>,
       <<"h","o","s","p","i","t","a","l">>,
       <<"a","p","p","o","i","n","t","m","e","n","t">>,
       <<"m","r","i">>,
       <<"c","l","i","n","i","c">>,
       <<"p","h","y","s","i","o">>,
       <<"p","h","y","s","i","o","t","h","e","r","a","p","y">>,
       <<"n","e","u","r","o","l","o","g","i","s","t">>,
       <<"i","n","f","u","s","i","o","n">>,
       <<"d","e","n","t","i","s","t">>,
       <<"t","h","e","r","a","p","y">>,
       <<"s","c","a","n">>,
       <<"s","u","r","g","e","r","y">>,
       <<"l","a","b">>,
       <<"b","l","o","o","d","w","o","r","k">> >>

PRIVATE_TITLES == { <<"b","u","s","y">>, <<"p","r","i","v","a","t","e">>, <<"u","n","a","v","a","i","l","a","b","l","e">> }

KW_DAILY_PLANNING == <<"d","a","i","l","y"," ","p","l","a","n","n","i","n","g">>

TITLE_PREP_TRAVEL == <<"P","r","e","p","/","T","r","a","v","e","l"," ","t","o"," ">>
TITLE_PREP == <<"P","r","e","p",":"," ">>
TITLE_TRAVEL_FROM == <<"T","r","a","v","e","l"," ","f","r","o","m"," ">>
TITLE_DAILY_ADMIN == <<"D","a","i","l","y"," ","p","l","a","n","n","i","n","g","/","a","d","m","i","n">>

KIND_SHORTEN == <<"s","u","g","g","e","s","t","_","s","h","o","r","t","e","n">>
KIND_PREP == <<"c","r","e","a","t","e","_","b","l","o","c","k",":","p","r","e","p">>
KIND_TRAVEL_FROM == <<"c","r","e","a","t","e","_","b","l","o","c","k",":","t","r","a","v","e","l","_","f","r","o","m">>
KIND_DAILY_ADMIN == <<"c","r","e","a","t","e","_","b","l","o","c","k",":","d","a","i","l","y","_","a","d","m","i","n">>

ACT_PREFIX == <<"a","c","t","-">>
DRY_RUN_PREFIX == <<"d","r","y","-","r","u","n",":">>

TitleSync == <<"S","y","n","c">>
TitlePing == <<"P","i","n","g">>
TitleReview == <<"R","e","v","i","e","w">>
TitleDentist == <<"D","e","n","t","i","s","t">>
TitleDentalClinic == <<"D","e","n","t","a","l"," ","c","l","i","n","i","c">>
TitleDoctor == <<"D","o","c","t","o","r">>
TitleHoliday == <<"H","o","l","i","d","a","y">>
TitleMedicalAppointment == <<"M","e","d","i","c","a","l"," ","a","p","p","o","i","n","t","m","e","n","t">>
TitleTeamSync == <<"T","e","a","m"," ","s","y","n","c"," ","m","e","e","t","i","n","g">>
LocationClinic == <<"C","l","i","n","i","c">>
IdDentist == <<"e","4">>
IdDoctor == <<"e","5">>
IdHoliday == <<"e","6">>
IdMock1 == <<"m","o","c","k","-","1">>
IdMock2 == <<"m","o","c","k","-","2">>
IdUnknown == <<"a","c","t","-","u","n","k","n","o","w","n">>

DIGIT_CHARS == <<"0","1","2","3","4","5","6","7","8","9">>

MINUTES_PER_DAY == 1440

\* a time is a count of minutes since midnight of day 0 (UTC); None is -1
NoTime == -1

two_digits(n) == << DIGIT_CHARS[(n \div 10) + 1], DIGIT_CHARS[(n % 10) + 1] >>

\* date.isoformat(): the day
date_text(t) == two_digits(t \div MINUTES_PER_DAY)

\* datetime.isoformat(): the day, "T", hours ":" minutes
isoformat(t) ==
    date_text(t) \o <<"T">> \o two_digits((t % MINUTES_PER_DAY) \div 60)
                 \o <<":">> \o two_digits(t % 60)

is_date_text(text) ==
    /\ Len(text) = 2
    /\ \A i \in 1..2 : text[i] \in DIGITS

is_datetime_text(text) ==
    /\ Len(text) = 8
    /\ \A i \in {1, 2, 4, 5, 7, 8} : text[i] \in DIGITS
    /\ text[3] = "T" /\ text[6] = ":"
    /\ digits_value(SubSeq(text, 4, 5)) < 24
    /\ digits_value(SubSeq(text, 7, 8)) < 60

\* _parse_iso: None for an empty or malformed text, midnight for a bare date
parse_iso(text) ==
    IF text = << >> \/ text = NoneText THEN NoTime
    ELSE IF is_date_text(text) THEN digits_value(text) * MINUTES_PER_DAY
    ELSE IF is_datetime_text(text)
    THEN digits_value(SubSeq(text, 1, 2)) * MINUTES_PER_DAY
            + digits_value(SubSeq(text, 4, 5)) * 60 + digits_value(SubSeq(text, 7, 8))
    ELSE NoTime

\* raw.get(key) or "": a missing or null value reads as the empty text
text_or_empty(value) == IF value = NoneText THEN << >> ELSE value

NoEvent == [exists |-> FALSE, event_id |-> << >>, title |-> << >>, start |-> NoTime,
            end |-> NoTime, location |-> << >>, is_all_day |-> FALSE,
            is_private |-> FALSE]

Event(event_id, title, start, end, location, is_all_day, is_private) ==
    [exists |-> TRUE, event_id |-> event_id, title |-> title, start |-> start,
     end |-> end, location |-> location, is_all_day |-> is_all_day,
     is_private |-> is_private]

\* _event_from_raw: None when a start or an end does not parse
event_from_raw(raw) ==
    LET start == parse_iso(text_or_empty(raw.start))
        end == parse_iso(text_or_empty(raw.end))
    IN  IF start = NoTime \/ end = NoTime THEN NoEvent
        ELSE Event(strip(text_or_empty(raw.id)), strip(raw.title), start, end,
                   text_or_empty(raw.location),
                   is_date_text(raw.start) \/ is_date_text(raw.end),
                   lower(strip(raw.title)) \in PRIVATE_TITLES
                       \/ raw.visibility = "private")

\* [event for raw in raw_events if (event := _event_from_raw(raw))]
RECURSIVE events_from_raw(_)
events_from_raw(raw_events) ==
    IF raw_events = << >> THEN << >>
    ELSE LET event == event_from_raw(Head(raw_events))
         IN  (IF event.exists THEN << event >> ELSE << >>)
                \o events_from_raw(Tail(raw_events))

\* _mock_events(start): base is 09:00 of the day of start
mock_events(start) ==
    LET base == (start \div MINUTES_PER_DAY) * MINUTES_PER_DAY + 9 * 60
    IN  << Event(IdMock1, TitleMedicalAppointment,
                 base + MINUTES_PER_DAY + 2 * 60, base + MINUTES_PER_DAY + 3 * 60,
                 << >>, FALSE, FALSE),
           Event(IdMock2, TitleTeamSync,
                 base + 2 * MINUTES_PER_DAY + 60, base + 2 * MINUTES_PER_DAY + 2 * 60,
                 << >>, FALSE, FALSE) >>

\* _filter_events: all-day events are left out
is_timed(event) == ~event.is_all_day

filter_events(events) == SelectSeq(events, is_timed)

\* _overlaps; an empty exclude_id excludes nothing
overlaps(start, end, events, exclude_id) ==
    \E i \in DOMAIN events :
        /\ ~(exclude_id # << >> /\ events[i].event_id = exclude_id)
        /\ start < events[i].end
        /\ end > events[i].start

\* sorted(items, key=start): stable, for records with a start
RECURSIVE sorted_by_start(_)
sorted_by_start(items) ==
    IF items = << >> THEN << >>
    ELSE LET last == items[Len(items)]
             front == sorted_by_start(SubSeq(items, 1, Len(items) - 1))
             before == { i \in DOMAIN front : front[i].start <= last.start }
             n == Cardinality(before)
         IN  SubSeq(front, 1, n) \o << last >> \o SubSeq(front, n + 1, Len(front))

interval_of(event) == [start |-> event.start, end |-> event.end]

\* the cursor loop of _find_free_slot over the sorted intervals, from index i
RECURSIVE scan_intervals(_, _, _, _, _)
scan_intervals(intervals, i, cursor, duration, window_end) ==
    IF i > Len(intervals)
    THEN IF cursor + duration <= window_end THEN cursor ELSE NoTime
    ELSE IF cursor + duration <= intervals[i].start THEN cursor
    ELSE scan_intervals(intervals, i + 1,
                        IF intervals[i].end > cursor THEN intervals[i].end ELSE cursor,
                        duration, window_end)

\* _find_free_slot
find_free_slot(events, window_start, window_end, duration, blocked_intervals) ==
    IF window_end <= window_start THEN NoTime
    ELSE LET inside == SelectSeq(events, LAMBDA event :
                                    event.end > window_start /\ event.start < window_end)
             intervals == [i \in DOMAIN inside |-> interval_of(inside[i])]
         IN  scan_intervals(sorted_by_start(intervals \o blocked_intervals), 1,
                            window_start, duration, window_end)

\* hashlib.sha1(seed).hexdigest()[:10]: the digest stands for its seed (no two
\* seeds of the model share a digest)
digest(seed) == seed

\* _action_id
action_id(seed) == ACT_PREFIX \o digest(seed)

\* _medical_keywords
medical_keywords(title) ==
    SelectSeq(MEDICAL_KEYWORDS, LAMBDA keyword : contains(lower(title), keyword))

----------------------------------------------------------------------------
(* The planner: _build_actions and build_plan.                              *)

\* the parts of a seed joined with ":" as the f-strings do
shorten_seed(current, next_event) ==
    KIND_SHORTEN \o <<":">> \o current.event_id \o <<":">> \o next_event.event_id
                 \o <<":">> \o isoformat(current.end)

\* mutant: the seed also carries the event's title
prep_seed_with_title(event) ==
    KIND_PREP \o <<":">> \o event.event_id \o <<":">> \o event.title
              \o <<":">> \o isoformat(event.start)

prep_seed(event) ==
    KIND_PREP \o <<":">> \o event.event_id \o <<":">> \o isoformat(event.start)

travel_from_seed(event) ==
    KIND_TRAVEL_FROM \o <<":">> \o event.event_id \o <<":">> \o isoformat(event.end)

daily_admin_seed(day, slot) ==
    KIND_DAILY_ADMIN \o <<":">> \o two_digits(day) \o <<":">> \o isoformat(slot)

\* a proposed action; kind, refs and boundary are what its seed was built
\* from: the action kind, the referenced event ids (the day, for a daily
\* anchor) and the boundary timestamp
\* the "confidence" literal of each kind of action, in hundredths
confidence_of(kind) ==
    IF kind = KIND_SHORTEN THEN 40
    ELSE IF kind = KIND_DAILY_ADMIN THEN 50
    ELSE 70

Action(seed, type, start, end, title, event_id, kind, refs, boundary) ==
    [exists |-> TRUE, action_id |-> action_id(seed), type |-> type,
     start |-> start, end |-> end, title |-> title, event_id |-> event_id,
     kind |-> kind, refs |-> refs, boundary |-> boundary,
     confidence |-> confidence_of(kind), risk |-> "low"]

NoAction == [exists |-> FALSE, action_id |-> << >>, type |-> "", start |-> << >>,
             end |-> << >>, title |-> << >>, event_id |-> << >>,
             kind |-> << >>, refs |-> << >>, boundary |-> NoTime,
             confidence |-> 0, risk |-> ""]

\* Heuristic A (lines 288-322), for the pairs from index i on
RECURSIVE back_to_back(_, _)
back_to_back(events_sorted, i) ==
    IF i >= Len(events_sorted) THEN << >>
    ELSE LET current == events_sorted[i]
             next_event == events_sorted[i + 1]
             gap_minutes == next_event.start - current.end
         IN  (IF gap_minutes >= 0 /\ gap_minutes <= 5
              THEN << Action(shorten_seed(current, next_event), "suggest_shorten",
                             << >>, << >>, << >>, current.event_id, KIND_SHORTEN,
                             << current.event_id, next_event.event_id >>,
                             current.end) >>
              ELSE << >>)
             \o back_to_back(events_sorted, i + 1)

\* a line of debug_lines: the heuristic's tag, what it is about and its verdict
trace_line(heuristic, subject, outcome) ==
    [heuristic |-> heuristic, subject |-> subject, outcome |-> outcome]

\* the debug lines of Heuristic A (lines 288-322), for the pairs from index i on
RECURSIVE back_to_back_lines(_, _)
back_to_back_lines(events_sorted, i) ==
    IF i >= Len(events_sorted) THEN << >>
    ELSE LET current == events_sorted[i]
             next_event == events_sorted[i + 1]
             gap_minutes == next_event.start - current.end
         IN  << trace_line("Back-to-back", << current.title, next_event.title >>,
                           IF gap_minutes < 0 THEN "overlap; no action."
                           ELSE IF gap_minutes <= 5 THEN "suggest shorten."
                           ELSE "no action.") >>
             \o back_to_back_lines(events_sorted, i + 1)

\* debug_lines.append
trace(acc, heuristic, subject, outcome) ==
    [acc EXCEPT !.debug_lines = Append(@, trace_line(heuristic, subject, outcome))]

\* mutant: the reserved intervals are not looked at
slot_free_events_only(start, end, events, blocked_intervals, exclude_event_id) ==
    ~overlaps(start, end, events, exclude_event_id)

\* slot_free of _build_actions
slot_free(start, end, events, blocked_intervals, exclude_event_id) ==
    /\ ~overlaps(start, end, events, exclude_event_id)
    /\ \A i \in DOMAIN blocked_intervals :
          ~(start < blocked_intervals[i].end /\ end > blocked_intervals[i].start)

\* reserve_slot, with the action that took the slot
propose(acc, action, start, end) ==
    [acc EXCEPT !.actions = Append(@, action),
                !.blocked = Append(@, [start |-> start, end |-> end])]

PREP_MINUTES == 15

\* the prep block of one medical event (lines 335-366)
with_prep(acc, event, events) ==
    IF slot_free(event.start - PREP_MINUTES, event.start, events, acc.blocked,
                 event.event_id)
    THEN trace(propose(acc,
                       Action(prep_seed(event), "create_block",
                              isoformat(event.start - PREP_MINUTES),
                              isoformat(event.start),
                              IF event.location # << >>
                              THEN TITLE_PREP_TRAVEL \o event.location
                              ELSE TITLE_PREP \o event.title,
                              event.event_id, KIND_PREP, << event.event_id >>,
                              event.start),
                       event.start - PREP_MINUTES, event.start),
               "Medical", << event.title >>, "prep block proposed.")
    ELSE trace(acc, "Medical", << event.title >>, "prep block skipped (slot overlaps).")

TRAVEL_MINUTES == 15

\* the travel-from block of one medical event with a location (lines 368-395)
with_travel_from(acc, event, events) ==
    IF event.location = << >> THEN acc
    ELSE IF slot_free(event.end, event.end + TRAVEL_MINUTES, events, acc.blocked,
                      event.event_id)
    THEN trace(propose(acc,
                       Action(travel_from_seed(event), "create_block",
                              isoformat(event.end),
                              isoformat(event.end + TRAVEL_MINUTES),
                              TITLE_TRAVEL_FROM \o event.location,
                              event.event_id, KIND_TRAVEL_FROM, << event.event_id >>,
                              event.end),
                       event.end, event.end + TRAVEL_MINUTES),
               "Medical", << event.title >>, "travel-from block proposed.")
    ELSE trace(acc, "Medical", << event.title >>,
               "travel-from block skipped (slot overlaps).")

\* Heuristic B (lines 324-395), for the events from index i on
RECURSIVE medical_blocks(_, _, _, _)
medical_blocks(acc, events_sorted, i, events) ==
    IF i > Len(events_sorted) THEN acc
    ELSE LET event == events_sorted[i]
         IN  IF event.is_private
             THEN medical_blocks(trace(acc, "Medical", << event.title >>,
                                       "private event; keyword heuristics skipped."),
                                 events_sorted, i + 1, events)
             ELSE IF medical_keywords(event.title) = << >>
             THEN medical_blocks(trace(acc, "Medical", << event.title >>,
                                       "no medical keywords matched."),
                                 events_sorted, i + 1, events)
             ELSE medical_blocks(with_travel_from(with_prep(acc, event, events),
                                                  event, events),
                                 events_sorted, i + 1, events)

\* event.start.date()
day_of(event) == event.start \div MINUTES_PER_DAY

\* sorted(events_by_day.items()): the days that hold events, ascending
RECURSIVE ascending(_)
ascending(days) ==
    IF days = {} THEN << >>
    ELSE LET first == CHOOSE d \in days : \A other \in days : d <= other
         IN  << first >> \o ascending(days \ {first})

RECURSIVE total_minutes(_)
total_minutes(day_events) ==
    IF day_events = << >> THEN 0
    ELSE (Head(day_events).end - Head(day_events).start) + total_minutes(Tail(day_events))

ANCHOR_MINUTES == 20
MORNING_START == 8 * 60 + 30
MORNING_END == 11 * 60 + 30
AFTERNOON_START == 13 * 60
AFTERNOON_END == 17 * 60 + 30
BUSY_DAY_EVENTS == 3
BUSY_DAY_MINUTES == 120

\* the slot of a day's anchor: the morning window, then the afternoon
anchor_slot(day, day_events, blocked_intervals) ==
    LET midnight == day * MINUTES_PER_DAY
        morning == find_free_slot(day_events, midnight + MORNING_START,
                                  midnight + MORNING_END, ANCHOR_MINUTES,
                                  blocked_intervals)
    IN  IF morning # NoTime THEN morning
        ELSE find_free_slot(day_events, midnight + AFTERNOON_START,
                            midnight + AFTERNOON_END, ANCHOR_MINUTES,
                            blocked_intervals)

has_daily_planning(day_events) ==
    \E i \in DOMAIN day_events : contains(lower(day_events[i].title), KW_DAILY_PLANNING)

with_anchor(acc, day, slot) ==
    IF slot = NoTime
    THEN trace(acc, "Daily anchor", << two_digits(day) >>,
               "qualified but no free 20m slot found.")
    ELSE trace(propose(acc,
                       Action(daily_admin_seed(day, slot), "create_block",
                              isoformat(slot), isoformat(slot + ANCHOR_MINUTES),
                              TITLE_DAILY_ADMIN, << >>, KIND_DAILY_ADMIN,
                              << two_digits(day) >>, slot),
                       slot, slot + ANCHOR_MINUTES),
               "Daily anchor", << two_digits(day) >>, "planning block proposed.")

\* Heuristic C (lines 397-471), for the days from index i on
RECURSIVE daily_anchors(_, _, _, _)
daily_anchors(acc, days, i, events_sorted) ==
    IF i > Len(days) THEN acc
    ELSE LET day_events == SelectSeq(events_sorted,
                                     LAMBDA event : day_of(event) = days[i])
         IN  IF ~(Len(day_events) >= BUSY_DAY_EVENTS
                    \/ total_minutes(day_events) >= BUSY_DAY_MINUTES)
             THEN daily_anchors(trace(acc, "Daily anchor", << two_digits(days[i]) >>,
                                      "no action."),
                                days, i + 1, events_sorted)
             ELSE IF has_daily_planning(day_events)
             THEN daily_anchors(trace(acc, "Daily anchor", << two_digits(days[i]) >>,
                                      "planning block already exists; no action."),
                                days, i + 1, events_sorted)
             ELSE daily_anchors(with_anchor(acc, days[i],
                                            anchor_slot(days[i], day_events, acc.blocked)),
                                days, i + 1, events_sorted)

\* _build_actions: the proposed actions and the debug lines in the order they
\* are appended, with the intervals reserve_slot has collected
build_actions_state(events) ==
    LET events_sorted == sorted_by_start(events)
        first == [actions |-> back_to_back(events_sorted, 1), blocked |-> << >>,
                  debug_lines |-> back_to_back_lines(events_sorted, 1)]
        second == medical_blocks(first, events_sorted, 1, events)
        days == ascending({ day_of(events[i]) : i \in DOMAIN events })
    IN  daily_anchors(second, days, 1, events_sorted)

\* the actions _build_actions returns
build_actions(events) == build_actions_state(events).actions

SCHEMA_VERSION == 1

NoPlan == [exists |-> FALSE, schema_version |-> 0, plan_id |-> << >>,
           generated_at |-> << >>,
           time_window |-> [start |-> << >>, end |-> << >>],
           calendar_id |-> "", data_source |-> "",
           summary |-> [proposed |-> 0, events |-> 0],
           result |-> [events_analyzed |-> 0, proposed_actions |-> 0,
                       action_types |-> {}],
           next_actions |-> << >>, errors |-> << >>,
           events |-> << >>, proposed_actions |-> << >>]

\* text.split("T")[0]
before_first_T(text) ==
    IF \E i \in DOMAIN text : text[i] = "T"
    THEN SubSeq(text, 1, (CHOOSE i \in DOMAIN text :
                            /\ text[i] = "T"
                            /\ \A j \in 1..(i - 1) : text[j] # "T") - 1)
    ELSE text

\* mutant: the result counts the events where it should count the actions
build_plan_counts_events(events, time_window, calendar_id, data_source, errors, actions, now) ==
    [exists |-> TRUE,
     schema_version |-> SCHEMA_VERSION,
     plan_id |-> before_first_T(time_window.start),
     generated_at |-> isoformat(now),
     time_window |-> time_window, calendar_id |-> calendar_id,
     data_source |-> data_source,
     summary |-> [proposed |-> Len(actions), events |-> Len(events)],
     result |-> [events_analyzed |-> Len(events),
                 proposed_actions |-> Len(events),
                 action_types |-> { actions[i].type : i \in DOMAIN actions }],
     next_actions |-> << "Review proposed actions in the plan file.",
                         "Apply selected actions with --plan-id and --actions." >>,
     errors |-> errors,
     events |-> [i \in DOMAIN events |->
                    [id |-> events[i].event_id, title |-> events[i].title,
                     start |-> isoformat(events[i].start),
                     end |-> isoformat(events[i].end),
                     location |-> events[i].location]],
     proposed_actions |-> actions]

\* build_plan, as _write_plan stores it; plan_id is the window start's date.
\* summary holds the two counts its sentence carries ("No actions proposed"
\* when the first is 0); action_types is list({...}), whose order the code
\* does not fix: it is held as a set
build_plan(events, time_window, calendar_id, data_source, errors, actions, now) ==
    [exists |-> TRUE,
     schema_version |-> SCHEMA_VERSION,
     plan_id |-> before_first_T(time_window.start),
     generated_at |-> isoformat(now),
     time_window |-> time_window, calendar_id |-> calendar_id,
     data_source |-> data_source,
     summary |-> [proposed |-> Len(actions), events |-> Len(events)],
     result |-> [events_analyzed |-> Len(events),
                 proposed_actions |-> Len(actions),
                 action_types |-> { actions[i].type : i \in DOMAIN actions }],
     next_actions |-> << "Review proposed actions in the plan file.",
                         "Apply selected actions with --plan-id and --actions." >>,
     errors |-> errors,
     events |-> [i \in DOMAIN events |->
                    [id |-> events[i].event_id, title |-> events[i].title,
                     start |-> isoformat(events[i].start),
                     end |-> isoformat(events[i].end),
                     location |-> events[i].location]],
     proposed_actions |-> actions]

PLAN_DAYS == 7
CALENDAR_ID == "primary"

\* the answer of the calendar listing: the raw events, or a failure
fetch_events(fetched) ==
    IF fetched.failed
    THEN [events |-> << >>, errors |-> << "codex exec failed." >>]
    ELSE [events |-> events_from_raw(fetched.raw_events), errors |-> << >>]

\* _plan_command: the plan it writes
plan_command(now, fetched) ==
    LET answer == fetch_events(fetched)
        events == filter_events(IF answer.errors # << >> THEN mock_events(now)
                                ELSE answer.events)
    IN  build_plan(events,
                   [start |-> isoformat(now),
                    end |-> isoformat(now + PLAN_DAYS * MINUTES_PER_DAY)],
                   CALENDAR_ID,
                   IF answer.errors # << >> THEN "mock" ELSE "mcp",
                   answer.errors, build_actions(events), now)

----------------------------------------------------------------------------
(* Apply: mcp_wrapper.apply and the apply command of calendar_hygiene.      *)

\* what one apply invocation did: the ids counted as applied and as skipped,
\* the recorded errors, and the blocks the calendar received
NoApply == [op |-> "idle", action_ids |-> << >>, dry_run |-> FALSE, confirm |-> FALSE,
            looped |-> FALSE, applied |-> << >>, skipped |-> << >>, errors |-> << >>,
            blocks |-> << >>, exit_code |-> 0]

\* action_map.get(action_id): of the actions that share an id the dict keeps
\* the last
action_map_get(actions, id) ==
    LET hits == { i \in DOMAIN actions : actions[i].action_id = id }
    IN  IF hits = {} THEN NoAction
        ELSE actions[CHOOSE i \in hits : \A other \in hits : other <= i]

skip(acc, id, error) ==
    [acc EXCEPT !.skipped = Append(@, id),
                !.errors = Append(@, [action_id |-> id, error |-> error])]

count_applied(acc, id, result) ==
    [acc EXCEPT !.applied = Append(@, [action_id |-> id, result |-> result])]

\* ch._apply_create_block(action, calendar_id) as the wrapper calls it: two
\* of the four positional parameters, which is a TypeError before any request
wrapper_create_block(acc, action) == skip(acc, action.action_id, "failed")

\* the loop of mcp_wrapper.apply over the requested ids, from index i on
RECURSIVE wrapper_loop(_, _, _, _, _)
wrapper_loop(acc, plan, action_ids, i, dry_run) ==
    IF i > Len(action_ids) THEN acc
    ELSE LET id == action_ids[i]
             action == action_map_get(plan.proposed_actions, id)
             start == parse_iso(action.start)
             end == parse_iso(action.end)
             next ==
                IF ~action.exists THEN skip(acc, id, "not found in plan")
                ELSE IF action.type # "create_block"
                THEN skip(acc, id, "is not create_block")
                ELSE IF start = NoTime \/ end = NoTime
                THEN skip(acc, id, "missing start/end")
                ELSE IF start < parse_iso(plan.time_window.start)
                        \/ end > parse_iso(plan.time_window.end)
                THEN skip(acc, id, "outside plan time window")
                ELSE IF dry_run THEN count_applied(acc, id, DRY_RUN_PREFIX \o id)
                ELSE wrapper_create_block(acc, action)
         IN  wrapper_loop(next, plan, action_ids, i + 1, dry_run)

refused(acc, skipped, error) ==
    [acc EXCEPT !.skipped = skipped,
                !.errors = << [action_id |-> NoneText, error |-> error] >>]

\* mutant: the confirmation gate is left out
wrapper_apply_unconfirmed(stored, plan_id, action_ids, dry_run, confirm) ==
    LET acc == [NoApply EXCEPT !.op = "wrapper_apply", !.action_ids = action_ids,
                               !.dry_run = dry_run, !.confirm = confirm]
    IN  IF action_ids = << >> THEN refused(acc, << >>, "action_ids is required.")
        ELSE IF ~stored.exists \/ stored.plan_id # plan_id
        THEN refused(acc, action_ids, "Plan file not found")
        ELSE IF stored.data_source # "mcp"
        THEN refused(acc, action_ids, "Plan data_source is not mcp.")
        ELSE IF parse_iso(stored.time_window.start) = NoTime
                \/ parse_iso(stored.time_window.end) = NoTime
        THEN refused(acc, action_ids, "Missing or invalid time_window in plan.")
        ELSE wrapper_loop([acc EXCEPT !.looped = TRUE], stored, action_ids, 1, dry_run)

\* mcp_wrapper.apply
wrapper_apply(stored, plan_id, action_ids, dry_run, confirm) ==
    LET acc == [NoApply EXCEPT !.op = "wrapper_apply", !.action_ids = action_ids,
                               !.dry_run = dry_run, !.confirm = confirm]
    IN  IF ~dry_run /\ ~confirm
        THEN refused(acc, action_ids, "confirm=True is required when dry_run is False.")
        ELSE IF action_ids = << >> THEN refused(acc, << >>, "action_ids is required.")
        ELSE IF ~stored.exists \/ stored.plan_id # plan_id
        THEN refused(acc, action_ids, "Plan file not found")
        ELSE IF stored.data_source # "mcp"
        THEN refused(acc, action_ids, "Plan data_source is not mcp.")
        ELSE IF parse_iso(stored.time_window.start) = NoTime
                \/ parse_iso(stored.time_window.end) = NoTime
        THEN refused(acc, action_ids, "Missing or invalid time_window in plan.")
        ELSE wrapper_loop([acc EXCEPT !.looped = TRUE], stored, action_ids, 1, dry_run)

CREATE_OUTCOMES == { "created", "failed" }

\* _apply_create_block: the calendar gets the block unless codex fails
apply_create_block(acc, action, outcome) ==
    IF outcome = "created"
    THEN [count_applied(acc, action.action_id, "created")
            EXCEPT !.blocks = Append(@, action)]
    ELSE skip(acc, action.action_id, "codex exec failed.")

\* the loop of _apply_actions over the requested ids, from index i on
RECURSIVE command_loop(_, _, _, _, _)
command_loop(acc, plan, action_ids, i, outcomes) ==
    IF i > Len(action_ids) THEN acc
    ELSE LET id == action_ids[i]
             action == action_map_get(plan.proposed_actions, id)
             next ==
                IF ~action.exists THEN skip(acc, id, "Action not found in plan.")
                ELSE IF action.type # "create_block"
                THEN skip(acc, id, "Unsupported action type for apply")
                ELSE apply_create_block(acc, action, outcomes[i])
         IN  command_loop(next, plan, action_ids, i + 1, outcomes)

\* mutant: the data source of the plan is not looked at
apply_actions_any_source(acc, plan, action_ids, outcomes) ==
    LET results == command_loop([acc EXCEPT !.looped = TRUE], plan, action_ids,
                                1, outcomes)
    IN  [results EXCEPT !.exit_code = IF results.skipped # << >> THEN 1 ELSE 0]

\* _apply_actions
apply_actions(acc, plan, action_ids, outcomes) ==
    IF plan.data_source # "mcp" THEN [acc EXCEPT !.exit_code = 2]
    ELSE LET results == command_loop([acc EXCEPT !.looped = TRUE], plan, action_ids,
                                     1, outcomes)
         IN  [results EXCEPT !.exit_code = IF results.skipped # << >> THEN 1 ELSE 0]

\* _apply_command; action_ids is args.actions split at the commas
apply_command(stored, plan_id, action_ids, dry_run, outcomes) ==
    LET acc == [NoApply EXCEPT !.op = "apply_command", !.action_ids = action_ids,
                               !.dry_run = dry_run]
    IN  IF ~stored.exists \/ stored.plan_id # plan_id THEN [acc EXCEPT !.exit_code = 2]
        ELSE IF dry_run /\ action_ids = << >> THEN acc
        ELSE IF action_ids = << >> THEN [acc EXCEPT !.exit_code = 2]
        ELSE IF dry_run THEN acc
        ELSE apply_actions(acc, stored, action_ids, outcomes)
----------------------------------------------------------------------------
(* scripts/prefs.py over the text on disk.  The file holds JSON: an object  *)
(* is its members in the order written, a value is its literal.  A dict is  *)
(* a sequence of members with distinct keys, in insertion order.            *)

Member(key, value) == [key |-> key, value |-> value]

\* the value json.loads reads from a literal, named by the literal
\* json.dumps writes for it
loads_value(literal) == IF literal = "0.50" THEN "0.5" ELSE literal

\* d[key] = value: a new key goes last, a present key keeps its place
dict_set(d, key, value) ==
    IF \E i \in DOMAIN d : d[i].key = key
    THEN [i \in DOMAIN d |-> IF d[i].key = key THEN Member(key, value) ELSE d[i]]
    ELSE Append(d, Member(key, value))

\* a.update(b), from member i of b on
RECURSIVE dict_update_from(_, _, _)
dict_update_from(a, b, i) ==
    IF i > Len(b) THEN a
    ELSE dict_update_from(dict_set(a, b[i].key, b[i].value), b, i + 1)

\* DEFAULT_PREFS, as json.dumps writes it
DEFAULT_PREFS_ITEMS ==
    << Member("auto_apply_enabled", "false"),
       Member("auto_apply_threshold", "0.92"),
       Member("auto_apply_scope", "[\"notion_corrections\"]") >>

\* memory/prefs.json: absent, or JSON text holding an object or another value
NoDisk == [exists |-> FALSE, is_object |-> FALSE, members |-> << >>]
disk_object(members) == [exists |-> TRUE, is_object |-> TRUE, members |-> members]
disk_array == [exists |-> TRUE, is_object |-> FALSE, members |-> << >>]

\* json.loads(PREFS_PATH.read_text()): of members that share a key the last
\* value is kept
json_loads(disk) ==
    dict_update_from(<< >>,
                     [i \in DOMAIN disk.members |->
                        Member(disk.members[i].key, loads_value(disk.members[i].value))],
                     1)

\* save_prefs: PREFS_PATH.write_text(json.dumps(prefs, indent=2))
save_prefs_text(prefs) == disk_object(prefs)

\* mutant: the defaults are laid over the stored values
load_prefs_defaults_win(disk) ==
    IF ~disk.exists
    THEN [prefs |-> DEFAULT_PREFS_ITEMS, disk |-> save_prefs_text(DEFAULT_PREFS_ITEMS)]
    ELSE LET data == json_loads(disk)
             merged == IF disk.is_object
                       THEN dict_update_from(data, DEFAULT_PREFS_ITEMS, 1)
                       ELSE DEFAULT_PREFS_ITEMS
         IN  [prefs |-> merged, disk |-> save_prefs_text(merged)]

\* load_prefs: [prefs, disk], what it returns and the file it leaves
load_prefs_text(disk) ==
    IF ~disk.exists
    THEN [prefs |-> DEFAULT_PREFS_ITEMS, disk |-> save_prefs_text(DEFAULT_PREFS_ITEMS)]
    ELSE LET data == json_loads(disk)
             merged == IF disk.is_object
                       THEN dict_update_from(DEFAULT_PREFS_ITEMS, data, 1)
                       ELSE DEFAULT_PREFS_ITEMS
         IN  [prefs |-> merged, disk |-> save_prefs_text(merged)]
----------------------------------------------------------------------------
(* The relevance scorer (scripts/tool_request_scoring.py).  Scores are held *)
(* in sixtieths, which keeps every overlap ratio of a query of up to six    *)
(* tokens exact.                                                            *)

SCORING_STOPWORDS ==
    { <<"t","h","e">>,
      <<"a","n","d">>,
      <<"o","r">>,
      <<"t","o">>,
      <<"a">>,
      <<"a","n">>,
      <<"o","f">>,
      <<"i","n">>,
      <<"f","o","r">>,
      <<"w","i","t","h">>,
      <<"i","s">>,
      <<"a","r","e">>,
      <<"b","e">>,
      <<"i","t">>,
      <<"t","h","i","s">>,
      <<"t","h","a","t">>,
      <<"m","y">>,
      <<"y","o","u","r">>,
      <<"f","r","o","m">>,
      <<"o","n">>,
      <<"b","y">>,
      <<"a","s">>,
      <<"a","t">>,
      <<"l","i","k","e">>,
      <<"i">>,
      <<"m","e">>,
      <<"y","o","u">>,
      <<"w","e">>,
      <<"o","u","r">>,
      <<"w","a","n","t">>,
      <<"n","e","e","d">>,
      <<"l","e","t","s">>,
      <<"l","e","t">>,
      <<"t","a","k","e">>,
      <<"m","a","k","e">>,
      <<"b","u","i","l","d">>,
      <<"i","m","p","l","e","m","e","n","t">>,
      <<"c","r","e","a","t","e">> }

SCORE_UNIT == 60

\* FIELD_WEIGHTS
WEIGHT_TITLE == 1
WEIGHT_DESCRIPTION == 2
WEIGHT_DESIRED_OUTCOME == 3
WEIGHT_DOMAIN == 4

\* 0.4 and 0.3, in sixtieths
PHRASE_BONUS == 24
KEYWORD_BONUS == 18

\* KEYWORD_DOMAIN_MAP, in the order of the source
KEYWORD_DOMAIN_MAP ==
    << [keyword |-> <<"r","e","c","e","i","p","t">>,
        domains |-> { <<"i","n","v","e","n","t","o","r","y">>, <<"p","a","n","t","r","y">> }],
       [keyword |-> <<"i","n","v","e","n","t","o","r","y">>,
        domains |-> { <<"i","n","v","e","n","t","o","r","y">>, <<"p","a","n","t","r","y">> }],
       [keyword |-> <<"p","a","n","t","r","y">>,
        domains |-> { <<"p","a","n","t","r","y">>, <<"i","n","v","e","n","t","o","r","y">> }],
       [keyword |-> <<"i","n","s","t","a","g","r","a","m">>,
        domains |-> { <<"i","n","s","t","a","g","r","a","m">>, <<"r","e","c","i","p","e","s">> }],
       [keyword |-> <<"r","e","c","i","p","e">>,
        domains |-> { <<"r","e","c","i","p","e","s">>, <<"c","o","o","k","i","n","g">> }],
       [keyword |-> <<"r","e","e","l">>,
        domains |-> { <<"i","n","s","t","a","g","r","a","m">>, <<"r","e","c","i","p","e","s">> }],
       [keyword |-> <<"p","h","o","t","o">>,
        domains |-> { <<"c","a","p","t","u","r","e">>, <<"p","a","n","t","r","y">>, <<"i","n","v","e","n","t","o","r","y">> }],
       [keyword |-> <<"i","m","a","g","e">>,
        domains |-> { <<"c","a","p","t","u","r","e">>, <<"p","a","n","t","r","y">>, <<"i","n","v","e","n","t","o","r","y">> }],
       [keyword |-> <<"o","c","r">>,
        domains |-> { <<"c","a","p","t","u","r","e">>, <<"k","n","o","w","l","e","d","g","e">> }],
       [keyword |-> <<"a","r","t","i","c","l","e">>,
        domains |-> { <<"r","e","a","d","i","n","g">>, <<"k","n","o","w","l","e","d","g","e">> }],
       [keyword |-> <<"a","r","t","i","c","l","e","s">>,
        domains |-> { <<"r","e","a","d","i","n","g">>, <<"k","n","o","w","l","e","d","g","e">> }],
       [keyword |-> <<"k","n","o","w","l","e","d","g","e">>,
        domains |-> { <<"k","n","o","w","l","e","d","g","e">> }],
       [keyword |-> <<"i","t","e","m","s">>,
        domains |-> { <<"i","n","v","e","n","t","o","r","y">>, <<"p","a","n","t","r","y">> }],
       [keyword |-> <<"g","r","o","c","e","r","i","e","s">>,
        domains |-> { <<"p","a","n","t","r","y">>, <<"i","n","v","e","n","t","o","r","y">> }] >>

\* tokenize of tool_request_scoring.py
scoring_tokenize(text) ==
    SelectSeq(tokens_from(lower(text), 1), LAMBDA token : token \notin SCORING_STOPWORDS)

\* str(value or ""): None reads as the empty text
text_or_blank(value) == IF value = NoneText THEN << >> ELSE value

\* a domain value: a list of texts, one text, or anything else (kind "none")
DomainList(items) == [kind |-> "list", items |-> items, text |-> << >>]
DomainText(text) == [kind |-> "str", items |-> << >>, text |-> text]
NoDomain == [kind |-> "none", items |-> << >>, text |-> << >>]

\* item.strip() for the items that are not blank
stripped_parts(parts) == SelectSeq(strip_each(parts), LAMBDA part : part # << >>)

\* _normalize_domain
normalize_domain(domain) ==
    IF domain.kind = "list" THEN stripped_parts(domain.items)
    ELSE IF domain.kind = "str" THEN stripped_parts(split_commas(domain.text))
    ELSE << >>

\* " ".join(parts)
RECURSIVE join_spaces(_)
join_spaces(parts) ==
    IF parts = << >> THEN << >>
    ELSE IF Len(parts) = 1 THEN parts[1]
    ELSE parts[1] \o << " " >> \o join_spaces(Tail(parts))

\* mutant: the ratio is taken over the field's tokens
overlap_score_by_field(query_tokens, field_tokens) ==
    LET query_set == Range(query_tokens)
        field_set == Range(field_tokens)
    IN  IF query_set = {} \/ field_set = {} THEN [score |-> 0, overlap |-> {}]
        ELSE [score |-> (Cardinality(query_set \cap field_set) * SCORE_UNIT)
                            \div Max(Cardinality(field_set), 1),
              overlap |-> query_set \cap field_set]

\* _overlap_score: [score, overlap]; overlap is sorted(set), held as the set
overlap_score(query_tokens, field_tokens) ==
    LET query_set == Range(query_tokens)
        field_set == Range(field_tokens)
    IN  IF query_set = {} \/ field_set = {} THEN [score |-> 0, overlap |-> {}]
        ELSE [score |-> (Cardinality(query_set \cap field_set) * SCORE_UNIT)
                            \div Max(Cardinality(query_set), 1),
              overlap |-> query_set \cap field_set]

\* the rules of KEYWORD_DOMAIN_MAP that fire, as indexes into the map
keyword_rules(query_tokens, domain_set) ==
    { i \in DOMAIN KEYWORD_DOMAIN_MAP :
        /\ KEYWORD_DOMAIN_MAP[i].keyword \in Range(query_tokens)
        /\ domain_set \cap KEYWORD_DOMAIN_MAP[i].domains # {} }

\* the result built at lines 137-157 from the pieces score_candidate computed;
\* bonuses names the rules whose detail lines the list holds
score_result(title, desc, outcome, domain, phrase, rules) ==
    [total_score |-> title.score * WEIGHT_TITLE + desc.score * WEIGHT_DESCRIPTION
                        + outcome.score * WEIGHT_DESIRED_OUTCOME
                        + domain.score * WEIGHT_DOMAIN
                        + (IF phrase THEN PHRASE_BONUS ELSE 0)
                        + Cardinality(rules) * KEYWORD_BONUS,
     breakdown |->
        [title_score |-> title.score * WEIGHT_TITLE,
         description_score |-> desc.score * WEIGHT_DESCRIPTION,
         desired_outcome_score |-> outcome.score * WEIGHT_DESIRED_OUTCOME,
         domain_score |-> domain.score * WEIGHT_DOMAIN,
         bonus_score |-> (IF phrase THEN PHRASE_BONUS ELSE 0)
                            + Cardinality(rules) * KEYWORD_BONUS,
         bonuses |-> [phrase |-> phrase,
                      keywords |-> { KEYWORD_DOMAIN_MAP[i].keyword : i \in rules }]],
     matches |->
        [title |-> title.overlap, description |-> desc.overlap,
         desired_outcome |-> outcome.overlap, domain |-> domain.overlap,
         top_tokens |-> title.overlap \cup desc.overlap \cup outcome.overlap
                            \cup domain.overlap]]

\* the verbatim test of lines 118-122
phrase_appears(lower_query, title, description, desired_outcome) ==
    \/ contains(lower(title), lower_query)
    \/ contains(lower(description), lower_query)
    \/ contains(lower(desired_outcome), lower_query)

\* mutant: the verbatim test is made for the empty query too
score_candidate_unguarded(query, candidate) ==
    LET query_tokens == scoring_tokenize(query)
        title == text_or_blank(candidate.title)
        description == text_or_blank(candidate.description)
        desired_outcome == text_or_blank(candidate.desired_outcome)
        domain_tokens ==
            scoring_tokenize(join_spaces(normalize_domain(candidate.domain)))
    IN  score_result(overlap_score(query_tokens, scoring_tokenize(title)),
                     overlap_score(query_tokens, scoring_tokenize(description)),
                     overlap_score(query_tokens, scoring_tokenize(desired_outcome)),
                     overlap_score(query_tokens, domain_tokens),
                     phrase_appears(lower(query), title, description, desired_outcome),
                     keyword_rules(query_tokens, Range(domain_tokens)))

score_candidate(query, candidate) ==
    LET query_tokens == scoring_tokenize(query)
        title == text_or_blank(candidate.title)
        description == text_or_blank(candidate.description)
        desired_outcome == text_or_blank(candidate.desired_outcome)
        domain_tokens ==
            scoring_tokenize(join_spaces(normalize_domain(candidate.domain)))
    IN  score_result(overlap_score(query_tokens, scoring_tokenize(title)),
                     overlap_score(query_tokens, scoring_tokenize(description)),
                     overlap_score(query_tokens, scoring_tokenize(desired_outcome)),
                     overlap_score(query_tokens, domain_tokens),
                     /\ lower(query) # << >>
                     /\ phrase_appears(lower(query), title, description, desired_outcome),
                     keyword_rules(query_tokens, Range(domain_tokens)))

\* texts of the scorer's checks
QueryBlank == <<" ">>
QueryThe == <<"t","h","e">>
QueryPantryOcr == <<"P","a","n","t","r","y"," ","O","C","R">>
QueryReceiptPhoto == <<"r","e","c","e","i","p","t"," ","p","h","o","t","o"," ","i","t","e","m","s">>
QueryInventory == <<"i","n","v","e","n","t","o","r","y">>
TitleTheReceipt == <<"T","h","e"," ","r","e","c","e","i","p","t">>
DescriptionScan == <<"s","c","a","n"," ","t","h","e"," ","p","a","n","t","r","y"," ","i","t","e","m","s">>
OutcomeInventory == <<"a","n"," ","i","n","v","e","n","t","o","r","y">>
TagPantry == <<"p","a","n","t","r","y">>
TagCapturePadded == <<" ","c","a","p","t","u","r","e"," ">>
TagsText == <<"i","n","v","e","n","t","o","r","y",","," ","r","e","c","i","p","e","s",",">>
TagPantryItems == <<"P","a","n","t","r","y"," ","i","t","e","m","s">>
----------------------------------------------------------------------------
(* The decision helper (scripts/llm_decider.py): _best_score and            *)
(* _heuristic_decide.  Scores of the generic branch are whole numbers;      *)
(* those of the other branch are score_candidate's.                         *)

BEST_REQUEST_TRIGGERS ==
    { <<"m","a","k","e"," ","a"," ","w","i","s","h">>,
      <<"f","u","l","f","i","l"," ","a"," ","w","i","s","h">>,
      <<"f","u","l","f","i","l","l"," ","a"," ","w","i","s","h">>,
      <<"w","h","a","t"," ","s","h","o","u","l","d"," ","w","e"," ","b","u","i","l","d">>,
      <<"b","u","i","l","d"," ","n","e","x","t">>,
      <<"b","u","i","l","d"," ","s","o","m","e","t","h","i","n","g">> }

\* IMPACT_SCORES.get(impact, 0)
impact_score_of(impact) ==
    CASE impact = <<"h","i","g","h">> -> 3
      [] impact = <<"m","e","d","i","u","m">> -> 2
      [] impact = <<"l","o","w">> -> 1
      [] OTHER -> 0

\* FREQUENCY_SCORES.get(frequency, 0)
frequency_score_of(frequency) ==
    CASE frequency = <<"m","a","n","y","-","t","i","m","e","s","-","p","e","r","-","d","a","y">> -> 4
      [] frequency = <<"d","a","i","l","y">> -> 3
      [] frequency = <<"w","e","e","k","l","y">> -> 2
      [] frequency = <<"o","n","c","e">> -> 1
      [] OTHER -> 0

DOMAIN_BONUS ==
    { <<"i","n","v","e","n","t","o","r","y">>, <<"p","a","n","t","r","y">>, <<"c","a","p","t","u","r","e">>, <<"r","e","c","i","p","e">>, <<"r","e","c","i","p","e","s">> }

StatusNew == <<"n","e","w">>
StatusTriaging == <<"t","r","i","a","g","i","n","g">>

\* recency_days: None or a number of days
NoDays == [is_none |-> TRUE, days |-> 0]
Days(n) == [is_none |-> FALSE, days |-> n]

\* _is_generic_request
is_generic_request(request_text) ==
    \E trigger \in BEST_REQUEST_TRIGGERS : contains(lower(request_text), trigger)

\* the domain tags of _best_score: stripped, lowercased, blanks dropped
best_score_domain(domain) ==
    LET parts == IF domain.kind = "list" THEN domain.items
                 ELSE IF domain.kind = "str" THEN split_commas(domain.text)
                 ELSE << >>
        kept == SelectSeq(parts, LAMBDA part : strip(part) # << >>)
    IN  [i \in DOMAIN kept |-> lower(strip(kept[i]))]

\* _best_score
best_score(candidate) ==
    LET status == lower(text_or_blank(candidate.status))
        impact == lower(text_or_blank(candidate.impact))
        frequency == lower(text_or_blank(candidate.frequency))
        recency_days == candidate.recency_days
        status_score == IF status \in { StatusNew, StatusTriaging } THEN 2 ELSE 0
        recency_score == IF recency_days.is_none THEN 0
                         ELSE IF recency_days.days <= 7 THEN 2
                         ELSE IF recency_days.days <= 30 THEN 1
                         ELSE 0
        domain_bonus ==
            IF Range(best_score_domain(candidate.domain)) \cap DOMAIN_BONUS # {}
            THEN 1 ELSE 0
    IN  [total_score |-> status_score + impact_score_of(impact)
                            + frequency_score_of(frequency) + recency_score
                            + domain_bonus,
         breakdown |-> [status_score |-> status_score,
                        impact_score |-> impact_score_of(impact),
                        frequency_score |-> frequency_score_of(frequency),
                        recency_score |-> recency_score,
                        domain_bonus |-> domain_bonus]]

\* mutant: an entry goes before the entries of equal score
sorted_by_score_ties_first(entries) ==
    LET RECURSIVE place(_)
        place(items) ==
            IF items = << >> THEN << >>
            ELSE LET last == items[Len(items)]
                     front == place(SubSeq(items, 1, Len(items) - 1))
                     n == Cardinality({ i \in DOMAIN front : front[i].score > last.score })
                 IN  SubSeq(front, 1, n) \o << last >> \o SubSeq(front, n + 1, Len(front))
    IN  place(entries)

\* list.sort(key=score, reverse=True): descending and stable
sorted_by_score(entries) ==
    LET RECURSIVE place(_)
        place(items) ==
            IF items = << >> THEN << >>
            ELSE LET last == items[Len(items)]
                     front == place(SubSeq(items, 1, Len(items) - 1))
                     n == Cardinality({ i \in DOMAIN front : front[i].score >= last.score })
                 IN  SubSeq(front, 1, n) \o << last >> \o SubSeq(front, n + 1, Len(front))
    IN  place(entries)

\* round(numerator / denominator, 2) in hundredths: to the nearest, a tie to
\* the even hundredth
rounded_hundredths(numerator, denominator) ==
    LET scaled == 100 * numerator
        low == scaled \div denominator
        rest == scaled % denominator
    IN  IF 2 * rest > denominator THEN low + 1
        ELSE IF 2 * rest < denominator THEN low
        ELSE IF low % 2 = 0 THEN low ELSE low + 1

\* max(top - second, 0.0) / max(top, 1.0), rounded; one is the score of 1.0
decide_confidence(ranked, one) ==
    IF ranked = << >> THEN 0
    ELSE LET top_score == ranked[1].score
             second_score == IF Len(ranked) > 1 THEN ranked[2].score ELSE 0
         IN  rounded_hundredths(Max(top_score - second_score, 0), Max(top_score, one))

\* ranked[:5]
first_five(ranked) == SubSeq(ranked, 1, Min(Len(ranked), 5))

\* _heuristic_decide: the chosen id, the confidence in hundredths and the
\* ranking; the scores of the second branch are score_candidate's units
heuristic_decide(request_text, candidates) ==
    LET ranked ==
            IF is_generic_request(request_text)
            THEN sorted_by_score([i \in DOMAIN candidates |->
                    [id |-> candidates[i].id,
                     score |-> best_score(candidates[i]).total_score,
                     breakdown |-> best_score(candidates[i]).breakdown]])
            ELSE sorted_by_score([i \in DOMAIN candidates |->
                    [id |-> candidates[i].id,
                     score |-> score_candidate(request_text, candidates[i]).total_score,
                     breakdown |->
                        score_candidate(request_text, candidates[i]).breakdown]])
    IN  [selected_id |-> IF ranked = << >> THEN NoneText ELSE ranked[1].id,
         confidence |-> decide_confidence(ranked,
                            IF is_generic_request(request_text) THEN 1 ELSE SCORE_UNIT),
         ranked |-> first_five(ranked),
         generic |-> is_generic_request(request_text)]
----------------------------------------------------------------------------
(* Tool request capture and the offline queue (scripts/tool_requests.py).   *)

\* text.split(): the runs of characters that are not blank, from index i on
RECURSIVE split_blanks(_, _)
split_blanks(text, i) ==
    LET first == skip_space(text, i)
    IN  IF first > Len(text) THEN << >>
        ELSE LET last == CHOOSE j \in first..Len(text) :
                            /\ \A k \in first..j : ~is_space(text[k])
                            /\ j = Len(text) \/ is_space(text[j + 1])
             IN  << SubSeq(text, first, last) >> \o split_blanks(text, last + 1)

\* " ".join(text.split())
collapse_blanks(text) == join_spaces(split_blanks(text, 1))

\* text.rstrip()
rstrip(text) ==
    IF \A i \in DOMAIN text : is_space(text[i]) THEN << >>
    ELSE SubSeq(text, 1, CHOOSE j \in DOMAIN text :
                            /\ ~is_space(text[j])
                            /\ \A k \in (j + 1)..Len(text) : is_space(text[k]))

TITLE_LIMIT == 80

\* _short_title
short_title(text, limit) ==
    LET clean == collapse_blanks(text)
    IN  IF Len(clean) <= limit THEN clean
        ELSE rstrip(SubSeq(clean, 1, limit - 3)) \o << ".", ".", "." >>

\* _normalize_text: None stays None, double quotes become single quotes
normalize_text(text) ==
    IF text = NoneText THEN NoneText
    ELSE collapse_blanks([i \in DOMAIN text |-> IF text[i] = "\"" THEN "'" ELSE text[i]])

TEXT_RESOLVE == <<"R","e","s","o","l","v","e",":"," ">>

\* _infer_desired_outcome
infer_desired_outcome(complaint) == TEXT_RESOLVE \o short_title(complaint, TITLE_LIMIT)

\* the arguments of capture: the complaint and --desired-outcome; the other
\* options stand at their defaults
CaptureArgs(complaint, desired_outcome) ==
    [complaint |-> complaint, desired_outcome |-> desired_outcome,
     frequency |-> "once", impact |-> "low", source |-> "terminal",
     domain |-> NoneText, link |-> NoneText, notes |-> NoneText]

\* the entry cmd_capture and _queue_and_exit build from the arguments
capture_entry(args) ==
    [title |-> short_title(args.complaint, TITLE_LIMIT),
     description |-> normalize_text(args.complaint),
     desired_outcome |->
        normalize_text(IF args.desired_outcome = NoneText \/ args.desired_outcome = << >>
                       THEN infer_desired_outcome(args.complaint)
                       ELSE args.desired_outcome),
     frequency |-> args.frequency,
     impact |-> args.impact,
     domain |-> IF args.domain = NoneText THEN << >>
                ELSE stripped_parts(split_commas(args.domain)),
     source |-> args.source,
     link |-> args.link,
     notes |-> normalize_text(args.notes)]

JSON_NULL == << "n", "u", "l", "l" >>

\* json.dumps of the characters of a text: \ and " are escaped
RECURSIVE json_escape(_)
json_escape(text) ==
    IF text = << >> THEN << >>
    ELSE IF Len(text) = 1
    THEN (IF text[1] \in { "\"", "\\" } THEN << "\\", text[1] >> ELSE text)
    ELSE json_escape(SubSeq(text, 1, Len(text) \div 2))
            \o json_escape(SubSeq(text, Len(text) \div 2 + 1, Len(text)))

\* json.dumps of a text or of None
json_dumps_text(text) ==
    IF text = NoneText THEN JSON_NULL
    ELSE << "\"" >> \o json_escape(text) \o << "\"" >>

\* the characters of a JSON string: each escaping backslash is dropped and
\* the character after it is kept
RECURSIVE json_unescape(_)
json_unescape(text) ==
    IF \A i \in DOMAIN text : text[i] # "\\" THEN text
    ELSE LET first == CHOOSE i \in DOMAIN text :
                         /\ text[i] = "\\"
                         /\ \A j \in 1..(i - 1) : text[j] # "\\"
         IN  SubSeq(text, 1, first - 1)
                \o SubSeq(text, first + 1, first + 1)
                \o json_unescape(SubSeq(text, first + 2, Len(text)))

\* json.loads of what json_dumps_text wrote
json_loads_text(line) ==
    IF line = JSON_NULL THEN NoneText
    ELSE json_unescape(SubSeq(line, 2, Len(line) - 1))

\* json.dumps(entry): one line of the queue file, held by key
json_dumps(entry) ==
    [entry EXCEPT !.title = json_dumps_text(@),
                  !.description = json_dumps_text(@),
                  !.desired_outcome = json_dumps_text(@),
                  !.link = json_dumps_text(@),
                  !.notes = json_dumps_text(@),
                  !.domain = [i \in DOMAIN @ |-> json_dumps_text(@[i])]]

\* json.loads(line)
json_loads_line(line) ==
    [line EXCEPT !.title = json_loads_text(@),
                 !.description = json_loads_text(@),
                 !.desired_outcome = json_loads_text(@),
                 !.link = json_loads_text(@),
                 !.notes = json_loads_text(@),
                 !.domain = [i \in DOMAIN @ |-> json_loads_text(@[i])]]

\* memory/tool_requests_queue.jsonl
NoQueue == [exists |-> FALSE, lines |-> << >>]

\* _queue_entry: the file is created when absent and the line is appended
queue_entry(queue, entry) ==
    [exists |-> TRUE, lines |-> Append(queue.lines, json_dumps(entry))]

\* one call of _send_to_notion: the entry of the prompt and the exit code
Send(entry, exit_code) == [entry |-> entry, exit_code |-> exit_code]

\* what a command of tool_requests.py did: the queue file it found, its calls
\* of _send_to_notion in order and its exit code
NoCommand == [op |-> "none", has_db_id |-> FALSE, queue_before |-> NoQueue,
              sends |-> << >>, exit_code |-> 0]

\* a command has run: the file, what Notion has created so far, the entries
\* capture has built so far, and the command's record
after_command(state, queue, sends, last) ==
    [state EXCEPT
        !.queue = queue,
        !.created = @ \o [i \in DOMAIN SelectSeq(sends, LAMBDA send : send.exit_code = 0)
                            |-> SelectSeq(sends, LAMBDA send : send.exit_code = 0)[i].entry],
        !.last = [last EXCEPT !.queue_before = state.queue, !.sends = sends],
        !.commands = @ + 1]

\* cmd_capture, with _queue_and_exit
cmd_capture(state, args, has_db_id, exit_code) ==
    LET entry == capture_entry(args)
        seen == [state EXCEPT !.captured = Append(@, entry)]
        last == [NoCommand EXCEPT !.op = "capture", !.has_db_id = has_db_id]
    IN  IF ~has_db_id
        THEN after_command(seen, queue_entry(state.queue, entry), << >>, last)
        ELSE IF exit_code # 0
        THEN after_command(seen, queue_entry(state.queue, entry),
                           << Send(entry, exit_code) >>, [last EXCEPT !.exit_code = 1])
        ELSE after_command(seen, state.queue, << Send(entry, exit_code) >>, last)

\* mutant: the queue file is removed whatever the sends returned
cmd_flush_unlinks(state, has_db_id, exit_codes) ==
    LET last == [NoCommand EXCEPT !.op = "flush", !.has_db_id = has_db_id]
        entries == [i \in DOMAIN state.queue.lines |-> json_loads_line(state.queue.lines[i])]
        sends == [i \in DOMAIN entries |-> Send(entries[i], exit_codes[i])]
    IN  IF ~state.queue.exists THEN after_command(state, state.queue, << >>, last)
        ELSE IF ~has_db_id
        THEN after_command(state, state.queue, << >>, [last EXCEPT !.exit_code = 1])
        ELSE after_command(state, NoQueue, sends, last)

\* cmd_flush; exit_codes are those of the sends, in order
cmd_flush(state, has_db_id, exit_codes) ==
    LET last == [NoCommand EXCEPT !.op = "flush", !.has_db_id = has_db_id]
        entries == [i \in DOMAIN state.queue.lines |-> json_loads_line(state.queue.lines[i])]
        sends == [i \in DOMAIN entries |-> Send(entries[i], exit_codes[i])]
        failed == SelectSeq(sends, LAMBDA send : send.exit_code # 0)
    IN  IF ~state.queue.exists THEN after_command(state, state.queue, << >>, last)
        ELSE IF ~has_db_id
        THEN after_command(state, state.queue, << >>, [last EXCEPT !.exit_code = 1])
        ELSE IF entries = << >> THEN after_command(state, NoQueue, << >>, last)
        ELSE IF failed # << >>
        THEN after_command(state,
                           [exists |-> TRUE,
                            lines |-> [i \in DOMAIN failed |-> json_dumps(failed[i].entry)]],
                           sends, [last EXCEPT !.exit_code = 1])
        ELSE after_command(state, NoQueue, sends, last)

\* complaints as typed: doubled blanks, double quotes, and one longer than a title
ComplaintAnnoyed == <<"A","n","n","o","y","e","d"," ","b","y"," "," ","X">>
ComplaintQuoted == <<"F","i","x"," ","\"","O","C","R","\""," ","s","c","a","n"," ">>
ComplaintLong ==
    <<"E","v","e","r","y"," ","w","e","e","k"," ","I"," ","c","o","p","y"," ","t","h","e"," ","g","r","o","c","e","r","y"," ","r","e","c","e","i","p","t"," ","l","i","n","e","s"," ","i","n","t","o"," ","t","h","e"," ","p","a","n","t","r","y"," ","s","h","e","e","t"," ","b","y"," ","h","a","n","d"," ","a","g","a","i","n"," ","a","n","d"," ","a","g","a","i","n">>
DesiredQuoted == <<"R","e","a","d"," "," ","\"","a","n","y","\""," ","r","e","c","e","i","p","t">>
----------------------------------------------------------------------------
(* Admin tools of the VM server (vm_server/tools/admin.py).                 *)

DEBUG_ADMIN_TOKEN == "debug-admin-token-abcdef"
DEBUG_SERVICE_NAME == "mcp-server.service"

\* a variable of the environment that is not set; a token that is not given
Unset == "<unset>"

\* _get_admin_token: os.getenv("ADMIN_TOKEN", DEBUG_ADMIN_TOKEN)
get_admin_token(env) == IF env.ADMIN_TOKEN = Unset THEN DEBUG_ADMIN_TOKEN ELSE env.ADMIN_TOKEN

\* _get_service_name
get_service_name(env) ==
    IF env.MCP_SERVICE_NAME = Unset THEN DEBUG_SERVICE_NAME ELSE env.MCP_SERVICE_NAME

ERROR_DEBUG_TOKEN ==
    "Using DEBUG admin token - set ADMIN_TOKEN environment variable for production"
ERROR_TOKEN_REQUIRED == "Admin token is required."
ERROR_TOKEN_INVALID == "Invalid admin token."

\* _authorize: the list of errors for the token
authorize(token, env) ==
    LET expected == get_admin_token(env)
        errors == IF expected = DEBUG_ADMIN_TOKEN THEN << ERROR_DEBUG_TOKEN >> ELSE << >>
    IN  IF token = Unset \/ token = "" THEN Append(errors, ERROR_TOKEN_REQUIRED)
        ELSE IF token # expected THEN Append(errors, ERROR_TOKEN_INVALID)
        ELSE errors

\* `errors and "Invalid admin token" in errors`: the list holds an element
\* equal to the text
token_refused(errors) ==
    errors # << >> /\ \E i \in DOMAIN errors : errors[i] = "Invalid admin token"

\* a command handed to _run_command; lines is the count given to journalctl
Command(argv, lines) == [argv |-> argv, lines |-> lines]

\* what a tool returns, with the commands it ran
Returned(summary, result, next_actions, errors, commands) ==
    [summary |-> summary, result |-> result, next_actions |-> next_actions,
     errors |-> errors, commands |-> commands]

NoReturn == Returned(<< >>, {}, << >>, << >>, << >>)

\* the envelope of a refused call
token_required(errors) ==
    Returned(<< "Admin token required." >>, {}, << "Provide a valid admin token." >>,
             errors, << >>)

\* the result holds the keys with their values
Field(key, value) == << key, value >>

\* admin_status; code and output are those of systemctl is-active
admin_status(token, env, code, output) ==
    LET errors == authorize(token, env)
        service == get_service_name(env)
        status == IF output = "" THEN "unknown" ELSE output
    IN  IF token_refused(errors) THEN token_required(errors)
        ELSE Returned(<< "Service ", service, " status: ", status, "." >>,
                      { Field("service", service), Field("status", status),
                        Field("status_code", IF code = 0 THEN "0" ELSE "nonzero") }
                         \cup (IF get_admin_token(env) = DEBUG_ADMIN_TOKEN
                               THEN { Field("debug_mode", "True"),
                                      Field("warning", "Using debug admin token") }
                               ELSE {}),
                      << "Run admin_logs to inspect recent logs." >>,
                      errors,
                      << Command(<< "systemctl", "is-active", service >>, 0) >>)

LINES_DEFAULT == 200
LINES_MOST == 1000

\* max(1, min(lines, 1000))
clamp_lines(lines) ==
    LET least == IF lines < LINES_MOST THEN lines ELSE LINES_MOST
    IN  IF least > 1 THEN least ELSE 1

\* admin_logs; code and output are those of journalctl
admin_logs(token, env, lines, code, output) ==
    LET errors == authorize(token, env)
        service == get_service_name(env)
        command == Command(<< "sudo", "journalctl", "-u", service, "-n", "--no-pager" >>,
                           clamp_lines(lines))
    IN  IF token_refused(errors) THEN token_required(errors)
        ELSE IF code # 0
        THEN Returned(<< "Failed to read logs." >>, { Field("lines", "") },
                      << "Check journalctl permissions." >>,
                      Append(errors, IF output = ""
                                     THEN "journalctl returned a non-zero exit code."
                                     ELSE output),
                      << command >>)
        ELSE Returned(<< "Fetched log line(s)." >>, { Field("lines", output) },
                      << >>, errors, << command >>)

\* admin_restart; code and output are those of systemctl restart
admin_restart(token, env, confirm, code, output) ==
    LET errors == authorize(token, env)
        service == get_service_name(env)
        command == Command(<< "sudo", "systemctl", "restart", service >>, 0)
    IN  IF token_refused(errors) THEN token_required(errors)
        ELSE IF ~confirm
        THEN Returned(<< "Restart requires confirmation." >>, { Field("service", service) },
                      << "Re-run with confirm=true to restart." >>, errors, << >>)
        ELSE IF code # 0
        THEN Returned(<< "Restart failed." >>, { Field("service", service) },
                      << "Inspect admin_logs for details." >>,
                      Append(errors, IF output = "" THEN "systemctl restart failed."
                                     ELSE output),
                      << command >>)
        ELSE Returned(<< "Restart triggered for ", service, "." >>,
                      { Field("service", service) },
                      << "Run health_check to confirm readiness." >>, errors,
                      << command >>)
----------------------------------------------------------------------------
(* State.                                                                   *)

VARIABLES
    rt,             \* one call of _route: its arguments and, once made, its result
    cf,             \* one call of _compute_confidence: arguments and result
    prefs_file,     \* memory/prefs.json
    preview_file,   \* memory/last_preview.json
    clock,          \* hours since the first invocation
    out,            \* what the last invocation of scripts/agent.py did
    memo,           \* the parsers' results for the request texts of the model
    plan_file,      \* memory/plans/calendar_hygiene/<plan_id>.json
    plan_runs,      \* the planner runs so far: their events and proposed actions
    cal_out,        \* what the last apply invocation did
    prefs_disk,     \* memory/prefs.json as the text on disk: its members in order
    prefs_log,      \* the calls of load_prefs and save_prefs so far
    bp,             \* one call of build_plan: its arguments and, once made, its result
    sc,             \* one call of score_candidate: arguments and result
    ba,             \* one call of _build_actions: its events and what it returned
    fs,             \* one call of _find_free_slot: arguments and result
    dec,            \* one call of _heuristic_decide: its candidates and decision
    tq,             \* scripts/tool_requests.py: the queue file and what Notion received
    adm             \* one call of an admin tool of vm_server: arguments and outcome

agent_vars == << prefs_file, preview_file, clock, out, memo >>

cal_vars == << plan_file, plan_runs, cal_out >>

more_vars == << ba, fs, dec, tq, adm >>

unit_vars == << prefs_disk, prefs_log, bp, sc, more_vars >>

vars == << rt, cf, agent_vars, cal_vars, unit_vars >>

----------------------------------------------------------------------------
(* The router as a pure function: every request text with either flag.      *)

PendingRoute == RouteResult("pending", NoneText, NoneText, NoneText)

\* values of the variables a specification does not exercise
IdleRoute == [request |-> << >>, force |-> FALSE, done |-> TRUE, result |-> PendingRoute]
IdleConf == [done |-> TRUE]
IdleCalendar ==
    /\ plan_file = NoPlan
    /\ plan_runs = << >>
    /\ cal_out = NoApply

\* the functions checked on their own have not been called
IdleBuildPlan == [done |-> TRUE]
IdleScore == [done |-> TRUE]
IdleActions == [done |-> TRUE]
IdleSlot == [done |-> TRUE]
IdleDecide == [done |-> TRUE]
IdleQueue == [done |-> TRUE]
IdleAdmin == [done |-> TRUE]
IdleMore ==
    /\ ba = IdleActions
    /\ fs = IdleSlot
    /\ dec = IdleDecide
    /\ tq = IdleQueue
    /\ adm = IdleAdmin
IdleUnits ==
    /\ prefs_disk = NoDisk
    /\ prefs_log = << >>
    /\ bp = IdleBuildPlan
    /\ sc = IdleScore
    /\ IdleMore

IdleAgent ==
    /\ prefs_file = NoFile
    /\ preview_file = NoPreview
    /\ clock = 0
    /\ out = NoOutput
    /\ memo = << >>

InitRoute ==
    /\ cf = IdleConf
    /\ IdleAgent
    /\ IdleUnits
    /\ IdleCalendar
    /\ rt \in { [request |-> r, force |-> f, done |-> FALSE, result |-> PendingRoute] :
                r \in ROUTE_REQUESTS, f \in BOOLEAN }

RouteCall ==
    /\ ~rt.done
    /\ rt' = [rt EXCEPT !.done = TRUE, !.result = route(rt.request, rt.force)]
    /\ UNCHANGED << cf, agent_vars, cal_vars, unit_vars >>

NextRoute == RouteCall

SpecRoute == InitRoute /\ [][NextRoute]_vars

----------------------------------------------------------------------------
(* C1: classification precedence.                                           *)

ROUTES == {"list", "search", "triage", "scaffold", "deploy", "edit_notion",
           "correct_tool_request", "prefs", "apply_last", "call", "unknown"}

\* The precedence as the specification lists it: rule number -> route.
PRECEDENCE == <<"scaffold", "apply_last", "prefs", "correct_tool_request", "call",
                "deploy", "edit_notion", "scaffold", "triage", "search", "list">>

\* Whether the k-th rule of the specification's list matches.
rule_holds(k, request, force_scaffold) ==
    CASE k = 1 -> force_scaffold
      [] k = 2 -> strip(lower(request)) \in APPLY_LAST_LITERALS
      [] k = 3 -> should_set_prefs(request)
      [] k = 4 -> should_correct_tool_request(request)
      [] k = 5 -> call_match(request).matched
      [] k = 6 -> \E word \in ROUTE_DEPLOY : contains(lower(request), word)
      [] k = 7 -> should_edit_notion(request)
      [] k = 8 -> \E word \in ROUTE_SCAFFOLD : contains(lower(request), word)
      [] k = 9 -> \E word \in ROUTE_PICK : contains(lower(request), word)
      [] k = 10 -> \E word \in ROUTE_SEARCH : contains(lower(request), word)
      [] k = 11 -> \E word \in ROUTE_LIST : contains(lower(request), word)

first_rule(request, force_scaffold) ==
    LET hits == { k \in DOMAIN PRECEDENCE : rule_holds(k, request, force_scaffold) }
    IN  IF hits = {} THEN 0 ELSE CHOOSE k \in hits : \A m \in hits : k <= m

\* C1: _route returns the route of the first rule of the specification's
\* ordered list that matches, and unknown when none does: a forced scaffold
\* is always scaffold, a deploy keyword beats a notion-edit intent, and the
\* result is always exactly one route of the fixed set.
C1_RoutePrecedence ==
    rt.done =>
        LET k == first_rule(rt.request, rt.force)
        IN  /\ rt.result.route \in ROUTES
            /\ rt.result.route = (IF k = 0 THEN "unknown" ELSE PRECEDENCE[k])
            /\ rt.force => rt.result.route = "scaffold"
            /\ ( /\ \A m \in 1..5 : ~rule_holds(m, rt.request, rt.force)
                 /\ rule_holds(6, rt.request, rt.force)
                 /\ rule_holds(7, rt.request, rt.force) )
               => rt.result.route = "deploy"

\* a request with both a deploy keyword and a notion-edit intent was routed
C1_Witness ==
    /\ rt.done
    /\ ~rt.force
    /\ \A m \in 1..5 : ~rule_holds(m, rt.request, rt.force)
    /\ rule_holds(6, rt.request, rt.force)
    /\ rule_holds(7, rt.request, rt.force)
    /\ rt.result.route = "deploy"


----------------------------------------------------------------------------
\* C16: for a request of the form call <tool_name> [{json_args}], with the
\* tool name made of [a-zA-Z0-9_-]+, that matches none of rules 1-4, _route
\* returns the route call with tool equal to the tool name as the request
\* writes it and args equal to the JSON text as written (no args when the
\* request gives none).
C16_CallParams ==
    ( /\ rt.done
      /\ call_match(rt.request).matched
      /\ \A m \in 1..4 : ~rule_holds(m, rt.request, rt.force) )
    => /\ rt.result.route = "call"
       /\ rt.result.tool = call_match(rt.request).tool
       /\ rt.result.args = call_match(rt.request).args
----------------------------------------------------------------------------
(* C9: the confidence scorer as a pure function.                            *)

CONF_REQUESTS == { ReqCorrectQuoted, ReqCorrectNegation, ReqMisinterpreted, ReqHello }

CONF_PHRASES == { NoneText, << >>, PhrasePantryOcr, PhrasePantryUpper }

CANDIDATES == { Candidate1, Candidate2, Candidate3 }

\* longest candidate pool handed to the scorer
MaxPool == 3

POOLS == UNION { [1..n -> CANDIDATES] : n \in 0..MaxPool }

NoConfidence == [score |-> -1, breakdown |-> << >>]

InitConf ==
    /\ cf \in { [request |-> r, candidate |-> c, candidates |-> p, old_phrase |-> o,
                 done |-> FALSE, result |-> NoConfidence] :
                    r \in CONF_REQUESTS, c \in CANDIDATES, p \in POOLS,
                    o \in CONF_PHRASES }
    /\ rt = IdleRoute
    /\ IdleAgent
    /\ IdleUnits
    /\ IdleCalendar

ConfidenceCall ==
    /\ ~cf.done
    /\ cf' = [cf EXCEPT !.done = TRUE,
                        !.result = compute_confidence(cf.request, cf.candidate,
                                                      cf.candidates, cf.old_phrase)]
    /\ UNCHANGED << rt, agent_vars, cal_vars, unit_vars >>

NextConf == ConfidenceCall

SpecConf == InitConf /\ [][NextConf]_vars

\* The four rules as the specification words them.
quoted_rule == 
    /\ cf.old_phrase \notin { NoneText, << >> }
    /\ contains(lower(title_of(cf.candidate)), lower(cf.old_phrase))

recency_rule ==
    \E i \in {1, 2} :
        /\ i <= Len(cf.candidates)
        /\ cf.candidates[i].obj = cf.candidate.obj

negation_rule ==
    \/ contains(lower(cf.request), KW_NOT) /\ contains(lower(cf.request), KW_BUT)
    \/ contains(lower(cf.request), KW_INSTEAD_OF)
    \/ contains(lower(cf.request), KW_MISINTERPRETED)

overlap_rule ==
    Cardinality(Range(tokenize(cf.request))
                    \cap Range(tokenize(title_of(cf.candidate)))) >= 2

bonus(fired, points) == IF fired THEN points ELSE 0

fired_rules ==
    (IF quoted_rule THEN << "quoted_phrase_match" >> ELSE << >>)
        \o (IF recency_rule THEN << "recency_bonus" >> ELSE << >>)
        \o (IF negation_rule THEN << "negation_pattern" >> ELSE << >>)
        \o (IF overlap_rule THEN << "keyword_overlap" >> ELSE << >>)

\* C9: the confidence is exactly the sum of the bonuses of the rules that fire
\* (0.45 quoted phrase in the title, 0.20 candidate at position 0 or 1 of the
\* pool, 0.20 negation phrasing, 0.15 two shared tokens), the breakdown lists
\* exactly the fired rules, and the value lies in [0, 1].
C9_ConfidenceIsSumOfBonuses ==
    cf.done =>
        /\ cf.result.score = bonus(quoted_rule, 45) + bonus(recency_rule, 20)
                                + bonus(negation_rule, 20) + bonus(overlap_rule, 15)
        /\ [i \in DOMAIN cf.result.breakdown |-> cf.result.breakdown[i].rule]
                = fired_rules
        /\ cf.result.score >= 0
        /\ cf.result.score <= 100

\* all four rules fired on one candidate and the score is at the ceiling
C9_Witness ==
    /\ cf.done
    /\ quoted_rule /\ recency_rule /\ negation_rule /\ overlap_rule
    /\ cf.result.score = 100

----------------------------------------------------------------------------
(* The agent machine: one action per route of main, the exit of the        *)
(* process, and the clock.                                                  *)

\* hours the clock advances in one step, and the last hour modelled
TickHours == 24
MaxClock == 48

Single == search_answer("ok", << Candidate1 >>)
Several == search_answer("ok", << Candidate1, Candidate2 >>)
Nothing == search_answer("ok", << >>)
Failed == search_answer("nonzero", << >>)

world_of(searches, page, update) ==
    [searches |-> searches, page |-> page, update |-> update]

\* what the MCP server answers during one correction or edit
WORLDS ==
    { world_of(<< Single, Nothing, Nothing >>, "ok", "ok"),
      world_of(<< Single, Nothing, Nothing >>, "ok", "nonzero"),
      world_of(<< Single, Nothing, Nothing >>, "bad_json", "bad_json"),
      world_of(<< Several, Nothing, Nothing >>, "ok", "ok"),
      world_of(<< Nothing, Single, Nothing >>, "ok", "ok"),
      world_of(<< Nothing, Nothing, Nothing >>, "ok", "ok"),
      world_of(<< Failed, Nothing, Nothing >>, "nonzero", "ok") }

\* what triage and the scaffold writer do during one scaffold
SCAFFOLD_WORLDS ==
    { << "nonzero", "created" >>, << "nothing", "created" >>, << "selected", "created" >>,
      << "selected", "exists" >>, << "selected", "no_registry" >> }

\* the parsers are pure: their results are computed once for the request
\* texts of the model and handed to the handlers
MEMO == { request_row(request) : request \in AGENT_REQUESTS }

\* files a user or another program left in memory/ before the first invocation
INITIAL_PREFS_FILES ==
    { NoFile, BrokenFile,
      file_with([auto_apply_enabled |-> TRUE, auto_apply_scope |-> << >>]) }

INITIAL_PREVIEWS ==
    { NoPreview,
      save_last_preview([type |-> "calendar_plan", page_id |-> PageId2,
                         updates |-> NoUpdates, timestamp |-> 0, confidence |-> 0]),
      save_last_preview([type |-> "notion_correction", page_id |-> PageId2,
                         updates |-> [NoUpdates EXCEPT !.title = TitleEmail],
                         timestamp |-> -1, confidence |-> 0]) }

InitAgent ==
    /\ rt = IdleRoute
    /\ cf = IdleConf
    /\ IdleCalendar
    /\ IdleUnits
    /\ prefs_file \in INITIAL_PREFS_FILES
    /\ preview_file \in INITIAL_PREVIEWS
    /\ clock = 0
    /\ out = NoOutput
    /\ memo = MEMO

\* main up to the handler: prefs = load_prefs(), then the route
started == new_run(load_prefs(prefs_file).file, preview_file)

\* no invocation is in flight and load_prefs() will answer
ready == out.route = "idle" /\ ~load_prefs_raises(prefs_file)

routed(info, args, name) ==
    (IF args.scaffold THEN info.forced.route ELSE info.route.route) = name

\* the files and the envelope once the handler is through
completes(args, name, run) ==
    /\ prefs_file' = run.prefs
    /\ preview_file' = run.preview
    /\ out' = finish(name, args, clock, run)
    /\ UNCHANGED << clock, memo, rt, cf, cal_vars, unit_vars >>

\* load_prefs() at line 535 is outside the try block
LoadPrefsRaises ==
    /\ out.route = "idle"
    /\ load_prefs_raises(prefs_file)
    /\ \E info \in memo, args \in ARGS :
           /\ out' = escaped("none", args, clock)
           /\ UNCHANGED << prefs_file, preview_file, clock, memo, rt, cf, cal_vars, unit_vars >>

ListRoute ==
    /\ ready
    /\ \E info \in memo, args \in ARGS, returncode \in RETURNCODES :
           /\ routed(info, args, "list")
           /\ completes(args, "list", handle_list(started, returncode))

SearchRoute ==
    /\ ready
    /\ \E info \in memo, args \in ARGS, returncode \in RETURNCODES :
           /\ routed(info, args, "search")
           /\ completes(args, "search", handle_search(started, info, returncode))

TriageRoute ==
    /\ ready
    /\ \E info \in memo, args \in ARGS, outcome \in TRIAGE_OUTCOMES :
           /\ routed(info, args, "triage")
           /\ completes(args, "triage",
                        handle_triage(started, resolve_dry_run(args), outcome))

PrefsRoute ==
    /\ ready
    /\ \E info \in memo, args \in ARGS :
           /\ routed(info, args, "prefs")
           /\ completes(args, "prefs", handle_prefs(started, info))

ApplyLastRoute ==
    /\ ready
    /\ \E info \in memo, args \in ARGS, outcome \in MCP_OUTCOMES :
           /\ routed(info, args, "apply_last")
           /\ completes(args, "apply_last",
                        handle_apply_last(started, args, resolve_dry_run(args),
                                          clock, outcome))

CorrectRoute ==
    /\ ready
    /\ \E info \in memo, args \in ARGS, world \in WORLDS :
           /\ routed(info, args, "correct_tool_request")
           /\ completes(args, "correct_tool_request",
                        handle_correct(started, info,
                                       args, resolve_dry_run(args), clock, world))

EditNotionRoute ==
    /\ ready
    /\ \E info \in memo, args \in ARGS, world \in WORLDS :
           /\ routed(info, args, "edit_notion")
           /\ completes(args, "edit_notion",
                        handle_edit_notion(started, info,
                                           resolve_dry_run(args), world))

DeployRoute ==
    /\ ready
    /\ \E info \in memo, args \in ARGS, returncode \in RETURNCODES :
           /\ routed(info, args, "deploy")
           /\ completes(args, "deploy",
                        handle_deploy(started, resolve_dry_run(args), returncode))

ScaffoldRoute ==
    /\ ready
    /\ \E info \in memo, args \in ARGS, world \in SCAFFOLD_WORLDS :
           /\ routed(info, args, "scaffold")
           /\ completes(args, "scaffold",
                        handle_scaffold(started, resolve_dry_run(args), world[1], world[2]))

CallRoute ==
    /\ ready
    /\ \E info \in memo, args \in ARGS, returncode \in RETURNCODES :
           /\ routed(info, args, "call")
           /\ completes(args, "call",
                        handle_call(started, info,
                                    resolve_dry_run(args), returncode))

UnknownRoute ==
    /\ ready
    /\ \E info \in memo, args \in ARGS :
           /\ routed(info, args, "unknown")
           /\ completes(args, "unknown", handle_unknown(started))

\* the process has exited and its caller has taken the envelope
Exit ==
    /\ out.route # "idle"
    /\ out' = NoOutput
    /\ UNCHANGED << prefs_file, preview_file, clock, memo, rt, cf, cal_vars, unit_vars >>

\* time passes between invocations
Tick ==
    /\ clock + TickHours <= MaxClock
    /\ clock' = clock + TickHours
    /\ UNCHANGED << prefs_file, preview_file, out, memo, rt, cf, cal_vars, unit_vars >>

NextAgent ==
    \/ LoadPrefsRaises
    \/ ListRoute
    \/ SearchRoute
    \/ TriageRoute
    \/ PrefsRoute
    \/ ApplyLastRoute
    \/ CorrectRoute
    \/ EditNotionRoute
    \/ DeployRoute
    \/ ScaffoldRoute
    \/ CallRoute
    \/ UnknownRoute
    \/ Exit
    \/ Tick

SpecAgent == InitAgent /\ [][NextAgent]_vars

----------------------------------------------------------------------------
(* Claims about the agent machine.                                          *)

\* the notion_update_page calls of the last invocation that ask for a write
sent_updates ==
    { i \in DOMAIN out.calls :
        /\ out.calls[i].tool = TOOL_NOTION_UPDATE_PAGE
        /\ out.calls[i].dry_run = "false" }

\* the notion_update_page calls of the last invocation that only preview
sent_previews ==
    { i \in DOMAIN out.calls :
        /\ out.calls[i].tool = TOOL_NOTION_UPDATE_PAGE
        /\ out.calls[i].dry_run = "true" }

\* tools of vm_server that write outside the server on every call
WRITING_TOOLS == { TOOL_LOG_SERENDIPITY, TOOL_CREATE_MOOD }

\* a subprocess that changes state outside the agent's own memory/ files
writes_external(call) ==
    \/ call.tool = TOOL_NOTION_UPDATE_PAGE /\ call.dry_run = "false"
    \/ call.tool = CMD_DEPLOY
    \/ call.tool = CMD_SCAFFOLD
    \/ call.tool = CMD_TRIAGE /\ call.dry_run = "false"
    \/ call.tool \in WRITING_TOOLS

\* C2: a correction that settled on one target and did not fail, run with
\* --execute and without --force, sends a
\* notion_update_page with dry_run=false only if auto_apply_enabled is true,
\* --auto-apply was passed, the scope holds "notion_corrections" and the
\* confidence reaches the configured threshold; otherwise only a preview is
\* sent and the operator is told to re-run with an override flag.
C2_AutoApplyGate ==
    ( /\ out.route = "correct_tool_request"
      /\ out.confidence # -1
      /\ out.errors = << >>
      /\ out.args.execute /\ ~out.dry_run /\ ~out.args.force )
    => LET prefs == prefs_file.data
           gate == /\ prefs.auto_apply_enabled
                   /\ out.args.auto_apply
                   /\ "notion_corrections" \in Range(prefs.auto_apply_scope)
                   /\ out.confidence >= prefs.auto_apply_threshold
       IN  /\ sent_updates # {} => gate
           /\ ~gate =>
                /\ sent_previews # {}
                /\ \E i \in DOMAIN out.next_actions :
                      out.next_actions[i]
                        = "Confidence below threshold. Re-run with --execute --force to apply."

\* C3: dry-run is in effect unless --execute is given without --dry-run, and
\* while it is in effect no route starts a subprocess that writes external
\* state: no notion_update_page with dry_run=false, no deploy script, no
\* scaffold, spec or plan file write, no writing tool through the call route.
C3_DryRunNeverMutates ==
    out.route # "idle" =>
        /\ out.dry_run = (~out.args.execute \/ out.args.dry_run)
        /\ out.dry_run => \A i \in DOMAIN out.calls : ~writes_external(out.calls[i])

\* C4: apply_last sends the stored preview's page_id and updates with
\* dry_run=false only in execute mode, with a stored preview of type
\* notion_correction whose timestamp is at most 24 hours old or with --force;
\* a missing preview, another type, or a stale or unparseable timestamp
\* without --force sends nothing and reports exactly one error; without
\* --execute nothing is sent.
C4_ApplyLastGate ==
    out.route = "apply_last" =>
        LET preview == preview_file
            usable == /\ preview.exists
                      /\ preview.type = "notion_correction"
            recent == /\ preview.timestamp # -1
                      /\ out.now - preview.timestamp <= 24
            allowed == ~out.dry_run /\ usable /\ (recent \/ out.args.force)
        IN  /\ out.calls # << >> =>
                /\ allowed
                /\ Len(out.calls) = 1
                /\ out.calls[1].tool = TOOL_NOTION_UPDATE_PAGE
                /\ out.calls[1].dry_run = "false"
                /\ out.calls[1].page_id = preview.page_id
                /\ out.calls[1].updates = preview.updates
            /\ allowed => Len(out.calls) = 1
            /\ (~out.dry_run /\ ~allowed) =>
                /\ out.calls = << >>
                /\ Len(out.errors) = 1
                /\ out.exit_code = 1
            /\ out.dry_run => out.calls = << >> /\ out.errors = << >>

\* a preview exactly 24 hours old was applied without --force
C4_Witness ==
    /\ out.route = "apply_last"
    /\ ~out.args.force
    /\ out.now - preview_file.timestamp = 24
    /\ sent_updates = {1}
    /\ out.calls[1].page_id = preview_file.page_id
    /\ out.errors = << >>

\* the preview a dry-run correction of the step writes: what it previewed
written_preview(result) ==
    [exists |-> TRUE, type |-> "notion_correction",
     page_id |-> result.calls[Len(result.calls)].page_id,
     updates |-> result.calls[Len(result.calls)].updates,
     timestamp |-> result.now,
     confidence |-> result.confidence]

\* the step is a dry-run correction that settled on one target and whose
\* preview call succeeded
writes_preview(result) ==
    /\ result.route = "correct_tool_request"
    /\ result.dry_run
    /\ result.confidence # -1
    /\ result.errors = << >>

\* C5: the preview is a single slot with last-write-wins: a dry-run
\* correction that resolved to a single target overwrites it with what it
\* previewed, and no other step (ambiguous or empty search, execute-mode
\* correction, apply_last, any other route, exit, time) modifies or clears
\* it, so apply_last applies exactly the page_id and updates last written.
C5_PreviewSingleSlot ==
    [][ /\ (out.route = "idle" /\ writes_preview(out'))
            => preview_file' = written_preview(out')
        /\ ~(out.route = "idle" /\ writes_preview(out'))
            => preview_file' = preview_file
        /\ (out'.route = "apply_last" /\ out'.calls # << >>)
            => /\ out'.calls[1].page_id = preview_file.page_id
               /\ out'.calls[1].updates = preview_file.updates
      ]_vars

\* a preview that a dry-run correction wrote at hour 24 is still stored at
\* hour 48 and an apply_last has sent exactly its page_id and updates
C5_Witness ==
    /\ out.route = "apply_last"
    /\ out.now = 48
    /\ sent_updates = {1}
    /\ preview_file.type = "notion_correction"
    /\ preview_file.page_id = PageIdUuid
    /\ preview_file.timestamp = 24
    /\ out.calls[1].page_id = PageIdUuid
    /\ out.calls[1].updates = preview_file.updates

\* C10: for every route a failing handler (an unresolved page id, query or
\* tool name, a subprocess exiting non-zero, malformed MCP output) is not
\* raised to the caller: the envelope is printed with exactly one error and
\* the exit code is 1; when nothing fails errors is empty and the exit code
\* is 0.  No exception escapes main for any input or stored state.
C10_ErrorEnvelope ==
    out.route # "idle" =>
        /\ out.envelope
        /\ Len(out.errors) <= 1
        /\ out.exit_code = (IF out.errors = << >> THEN 0 ELSE 1)
        /\ out.returncode > 0 => Len(out.errors) = 1


----------------------------------------------------------------------------
\* C12: when the search of a tool-request correction or of a Notion edit
\* answers with more than one item (a search is only made for a request that
\* carries no page id), the result holds the candidates list, errors stays
\* empty, no notion_update_page call is made, neither preview nor real, and
\* no preview is saved, whatever flags are given.
C12_AmbiguityYieldsCandidates ==
    [][(out'.route \in {"correct_tool_request", "edit_notion"} /\ out'.found > 1)
          => /\ out'.candidates = out'.found
             /\ out'.errors = << >>
             /\ \A i \in DOMAIN out'.calls :
                    out'.calls[i].tool # TOOL_NOTION_UPDATE_PAGE
             /\ preview_file' = preview_file]_vars

\* both routes have met several matches under --execute with --force or
\* with --auto-apply
C12_Witness ==
    /\ out.route \in {"correct_tool_request", "edit_notion"}
    /\ out.found > 1
    /\ out.candidates = 2
    /\ out.args.execute
    /\ out.args.force \/ out.args.auto_apply

----------------------------------------------------------------------------
\* C15: across any sequence of invocations the stored values of
\* auto_apply_enabled, auto_apply_threshold and auto_apply_scope change only
\* during an invocation routed to prefs; every other route leaves the stored
\* preference values as they are (a key the file lacks stands at its default,
\* which is what the load at the start of every invocation writes for it).
C15_PrefsChangeOnlyByPrefsRoute ==
    [][out'.route # "prefs" =>
          IF load_prefs_raises(prefs_file) THEN prefs_file' = prefs_file
          ELSE /\ ~load_prefs_raises(prefs_file')
               /\ \A key \in DOMAIN prefs_file.data :
                     /\ key \in DOMAIN prefs_file'.data
                     /\ prefs_file'.data[key] = prefs_file.data[key]
               /\ \A key \in DOMAIN DEFAULT_PREFS :
                     load_prefs(prefs_file').prefs[key]
                        = load_prefs(prefs_file).prefs[key]]_vars

\* an invocation of another route ran on preferences that an earlier prefs
\* invocation had changed
C15_Witness ==
    /\ out.route \in {"list", "correct_tool_request", "call"}
    /\ out.envelope
    /\ prefs_file.exists /\ prefs_file.valid
    /\ prefs_file.data.auto_apply_threshold # DEFAULT_THRESHOLD

----------------------------------------------------------------------------
(* The calendar planner as a machine: planner runs over fetched events.     *)

RawEvent(id, title, start, end, location, visibility) ==
    [id |-> id, title |-> title, start |-> start, end |-> end,
     location |-> location, visibility |-> visibility]

\* the listing carries no id for these three; the second has no duration
RawSync == RawEvent(NoneText, TitleSync, isoformat(540), isoformat(600), NoneText, "")
RawPing == RawEvent(NoneText, TitlePing, isoformat(600), isoformat(600), NoneText, "")
RawReview == RawEvent(NoneText, TitleReview, isoformat(600), isoformat(660), NoneText, "")
RawDentist ==
    RawEvent(IdDentist, TitleDentist, isoformat(550), isoformat(600), LocationClinic, "")
\* the same event after it was renamed
RawDentalClinic ==
    RawEvent(IdDentist, TitleDentalClinic, isoformat(550), isoformat(600),
             LocationClinic, "")
RawDoctor ==
    RawEvent(IdDoctor, TitleDoctor, isoformat(900), isoformat(960), NoneText, "private")
\* an all-day event: bare dates
RawHoliday ==
    RawEvent(IdHoliday, TitleHoliday, date_text(0), date_text(MINUTES_PER_DAY),
             NoneText, "")

\* an event that starts on day 0 and ends on the morning of day 1
RawNightShift ==
    RawEvent(<<"e", "7">>, <<"N", "i", "g", "h", "t", " ", "s", "h", "i", "f", "t">>,
             isoformat(23 * 60), isoformat(MINUTES_PER_DAY + 9 * 60), NoneText, "")
\* two hours on the afternoon of day 1
RawWorkshop ==
    RawEvent(<<"e", "8">>, <<"W", "o", "r", "k", "s", "h", "o", "p">>,
             isoformat(MINUTES_PER_DAY + 14 * 60), isoformat(MINUTES_PER_DAY + 16 * 60),
             NoneText, "")

RAW_EVENTS ==
    { RawSync, RawPing, RawReview, RawDentist, RawDentalClinic, RawDoctor, RawHoliday,
      RawNightShift, RawWorkshop }

MaxEvents == 3

\* the listings: up to MaxEvents different events in any order
LISTINGS ==
    UNION { { listing \in [1..n -> RAW_EVENTS] :
                \A i, j \in 1..n : i # j => listing[i] # listing[j] } : n \in 0..MaxEvents }

FETCHED ==
    { [failed |-> FALSE, raw_events |-> listing] : listing \in LISTINGS }
        \cup { [failed |-> TRUE, raw_events |-> << >>] }

\* the planner is started at 09:00 or at 09:05 of day 0
NOW_TIMES == { 9 * 60, 9 * 60 + 5 }

InitPlanner ==
    /\ rt = IdleRoute
    /\ cf = IdleConf
    /\ IdleAgent
    /\ IdleUnits
    /\ IdleCalendar

\* a planner run, as the log keeps it
planner_run(now, fetched, plan) ==
    [now |-> now, fetched |-> fetched, proposed_actions |-> plan.proposed_actions]

\* the plan command runs: the plan file is written
PlanCommand ==
    /\ plan_runs = << >>
    /\ \E now \in NOW_TIMES, fetched \in FETCHED :
          /\ plan_file' = plan_command(now, fetched)
          /\ plan_runs' = << planner_run(now, fetched, plan_file') >>
    /\ UNCHANGED << cal_out, rt, cf, agent_vars, unit_vars >>

\* the plan command runs a second time and the calendar lists the same events
PlanAgain ==
    /\ Len(plan_runs) = 1
    /\ \E now \in NOW_TIMES :
          /\ plan_file' = plan_command(now, plan_runs[1].fetched)
          /\ plan_runs' = Append(plan_runs,
                                 planner_run(now, plan_runs[1].fetched, plan_file'))
    /\ UNCHANGED << cal_out, rt, cf, agent_vars, unit_vars >>

NextPlanner == PlanCommand \/ PlanAgain

SpecPlanner == InitPlanner /\ [][NextPlanner]_vars

----------------------------------------------------------------------------
(* Apply as a machine: invocations against a stored plan.                   *)

\* the listings whose plans are on disk when apply is invoked
STORED_FETCHED ==
    { [failed |-> FALSE, raw_events |-> << RawDentist >>],
      [failed |-> FALSE, raw_events |-> << RawSync, RawPing, RawReview >>],
      [failed |-> TRUE, raw_events |-> << >>] }

\* a plan file left by a later version of the program
NewerPlan ==
    [plan_command(9 * 60, [failed |-> FALSE, raw_events |-> << RawDentist >>])
        EXCEPT !.schema_version = SCHEMA_VERSION + 1]

STORED_PLANS ==
    { plan_command(9 * 60, fetched) : fetched \in STORED_FETCHED }
        \cup { NoPlan, NewerPlan }

PLAN_IDS == { date_text(0), date_text(MINUTES_PER_DAY) }

MaxIds == 2

\* the ids an operator may pass: those of the stored plan and one it lacks
ids_of(plan) ==
    { plan.proposed_actions[i].action_id : i \in DOMAIN plan.proposed_actions }
        \cup { IdUnknown }

id_lists(plan) == UNION { [1..n -> ids_of(plan)] : n \in 0..MaxIds }

InitApply ==
    /\ rt = IdleRoute
    /\ cf = IdleConf
    /\ IdleAgent
    /\ IdleUnits
    /\ plan_file \in STORED_PLANS
    /\ plan_runs = << >>
    /\ cal_out = NoApply

\* mcp_wrapper.apply is called
WrapperApply ==
    /\ cal_out.op = "idle"
    /\ \E plan_id \in PLAN_IDS, action_ids \in id_lists(plan_file),
          dry_run \in BOOLEAN, confirm \in BOOLEAN :
          cal_out' = wrapper_apply(plan_file, plan_id, action_ids, dry_run, confirm)
    /\ UNCHANGED << plan_file, plan_runs, rt, cf, agent_vars, unit_vars >>

\* calendar_hygiene.py apply is run
ApplyCommand ==
    /\ cal_out.op = "idle"
    /\ \E plan_id \in PLAN_IDS, action_ids \in id_lists(plan_file),
          dry_run \in BOOLEAN, outcomes \in [1..MaxIds -> CREATE_OUTCOMES] :
          cal_out' = apply_command(plan_file, plan_id, action_ids, dry_run, outcomes)
    /\ UNCHANGED << plan_file, plan_runs, rt, cf, agent_vars, unit_vars >>

\* the invocation has returned
ApplyExit ==
    /\ cal_out.op # "idle"
    /\ cal_out' = NoApply
    /\ UNCHANGED << plan_file, plan_runs, rt, cf, agent_vars, unit_vars >>

NextApply == WrapperApply \/ ApplyCommand \/ ApplyExit

SpecApply == InitApply /\ [][NextApply]_vars
----------------------------------------------------------------------------
(* scripts/prefs.py as a machine: loads and saves over one file.            *)

\* members a user may have written into memory/prefs.json by hand
DISK_MEMBERS ==
    { Member("auto_apply_enabled", "true"), Member("auto_apply_enabled", "false"),
      Member("auto_apply_threshold", "0.50"), Member("auto_apply_threshold", "0.8"),
      Member("auto_apply_scope", "[]"), Member("theme", "\"dark\"") }

MaxMembers == 2

\* the files found at the first call
INITIAL_DISKS ==
    { NoDisk, disk_array }
        \cup UNION { { disk_object(members) : members \in [1..n -> DISK_MEMBERS] } :
                     n \in 0..MaxMembers }

\* what the prefs route saves: one key set in the loaded prefs
SAVED_MEMBERS ==
    { Member("auto_apply_enabled", "true"), Member("auto_apply_threshold", "0.8") }

MaxCalls == 3

InitPrefs ==
    /\ rt = IdleRoute
    /\ cf = IdleConf
    /\ IdleAgent
    /\ IdleCalendar
    /\ prefs_disk \in INITIAL_DISKS
    /\ prefs_log = << >>
    /\ bp = IdleBuildPlan
    /\ sc = IdleScore
    /\ IdleMore

\* one call, as the log keeps it
prefs_call(op, before, prefs, after) ==
    [op |-> op, before |-> before, prefs |-> prefs, after |-> after]

\* load_prefs() is called
LoadPrefs ==
    /\ Len(prefs_log) < MaxCalls
    /\ LET loaded == load_prefs_text(prefs_disk)
       IN  /\ prefs_disk' = loaded.disk
           /\ prefs_log' = Append(prefs_log,
                                  prefs_call("load", prefs_disk, loaded.prefs, loaded.disk))
    /\ UNCHANGED << rt, cf, agent_vars, cal_vars, bp, sc, more_vars >>

\* save_prefs(updated) of the prefs route: the prefs it loaded, one key set
SavePrefs ==
    /\ Len(prefs_log) < MaxCalls
    /\ prefs_log # << >>
    /\ prefs_log[Len(prefs_log)].op = "load"
    /\ \E member \in SAVED_MEMBERS :
          LET updated == dict_set(prefs_log[Len(prefs_log)].prefs, member.key, member.value)
          IN  /\ prefs_disk' = save_prefs_text(updated)
              /\ prefs_log' = Append(prefs_log,
                                     prefs_call("save", prefs_disk, updated, prefs_disk'))
    /\ UNCHANGED << rt, cf, agent_vars, cal_vars, bp, sc, more_vars >>

NextPrefs == LoadPrefs \/ SavePrefs

SpecPrefs == InitPrefs /\ [][NextPrefs]_vars

\* the keys of a sequence of members
keys_of(members) == { members[i].key : i \in DOMAIN members }

\* the value a JSON object text holds for a key: that of its last member
\* with the key
stored_value(members, key) ==
    loads_value(members[CHOOSE i \in DOMAIN members :
                            /\ members[i].key = key
                            /\ \A j \in DOMAIN members : members[j].key = key => j <= i].value)

\* C14: load_prefs returns and persists a mapping that keeps every key of
\* the existing file with its stored value and adds every default key the
\* file lacks with its default value; without a file it persists and returns
\* the defaults (auto_apply_enabled false, threshold 0.92, scope
\* [notion_corrections]); a second load_prefs with no change in between
\* returns the same mapping and leaves the file content as it is.
C14_LoadPrefsMerges ==
    \A i \in DOMAIN prefs_log :
        LET call == prefs_log[i]
            file_keys == keys_of(call.before.members)
            default_keys == keys_of(DEFAULT_PREFS_ITEMS)
        IN  call.op = "load" =>
              /\ call.after = disk_object(call.prefs)
              /\ \A m, n \in DOMAIN call.prefs :
                    call.prefs[m].key = call.prefs[n].key => m = n
              /\ keys_of(call.prefs) = file_keys \cup default_keys
              /\ \A key \in file_keys :
                    stored_value(call.prefs, key) = stored_value(call.before.members, key)
              /\ \A key \in default_keys \ file_keys :
                    stored_value(call.prefs, key) = stored_value(DEFAULT_PREFS_ITEMS, key)
              /\ ~call.before.exists =>
                    call.prefs = << Member("auto_apply_enabled", "false"),
                                    Member("auto_apply_threshold", "0.92"),
                                    Member("auto_apply_scope", "[\"notion_corrections\"]") >>
              /\ (i > 1 /\ prefs_log[i - 1].op = "load") =>
                    /\ call.prefs = prefs_log[i - 1].prefs
                    /\ call.after = call.before

\* a file with a custom threshold, a key of its own and no scope was loaded
\* twice in a row
C14_Witness ==
    /\ Len(prefs_log) >= 2
    /\ prefs_log[1].op = "load"
    /\ prefs_log[2].op = "load"
    /\ prefs_log[1].before =
          disk_object(<< Member("theme", "\"dark\""), Member("auto_apply_threshold", "0.50") >>)
    /\ prefs_log[1].after # prefs_log[1].before
    /\ prefs_log[2].after = prefs_log[2].before
----------------------------------------------------------------------------
(* build_plan as a pure function: its arguments drawn from small sets.      *)

\* the events a caller may hand over
PLAN_EVENTS ==
    Range(events_from_raw(<< RawDentist, RawSync >>))

\* proposed actions as the planner makes them
PLAN_ACTIONS ==
    Range(build_actions(events_from_raw(<< RawDentist >>)))
        \cup Range(build_actions(events_from_raw(<< RawSync, RawPing, RawReview >>)))

MaxPlanEvents == 2
MaxPlanActions == 2

\* time windows: timestamps, and a bare date as start
PLAN_WINDOWS ==
    { [start |-> isoformat(9 * 60), end |-> isoformat(9 * 60 + PLAN_DAYS * MINUTES_PER_DAY)],
      [start |-> isoformat(MINUTES_PER_DAY + 10 * 60),
       end |-> isoformat(MINUTES_PER_DAY + 11 * 60)],
      [start |-> date_text(2 * MINUTES_PER_DAY), end |-> date_text(3 * MINUTES_PER_DAY)] }

BUILD_PLAN_CALLS ==
    { [events |-> events, time_window |-> time_window, calendar_id |-> calendar_id,
       data_source |-> data_source, errors |-> errors, actions |-> actions,
       now |-> 9 * 60, done |-> FALSE, plan |-> NoPlan] :
        events \in UNION { [1..n -> PLAN_EVENTS] : n \in 0..MaxPlanEvents },
        time_window \in PLAN_WINDOWS,
        calendar_id \in { CALENDAR_ID, "work" },
        data_source \in { "mcp", "mock" },
        errors \in { << >>, << "codex exec failed." >> },
        actions \in UNION { [1..n -> PLAN_ACTIONS] : n \in 0..MaxPlanActions } }

InitBuildPlan ==
    /\ rt = IdleRoute
    /\ cf = IdleConf
    /\ IdleAgent
    /\ IdleCalendar
    /\ prefs_disk = NoDisk
    /\ prefs_log = << >>
    /\ sc = IdleScore
    /\ IdleMore
    /\ bp \in BUILD_PLAN_CALLS

BuildPlanCall ==
    /\ ~bp.done
    /\ bp' = [bp EXCEPT !.done = TRUE,
                        !.plan = build_plan(bp.events, bp.time_window, bp.calendar_id,
                                            bp.data_source, bp.errors, bp.actions,
                                            bp.now)]
    /\ UNCHANGED << rt, cf, agent_vars, cal_vars, prefs_disk, prefs_log, sc, more_vars >>

NextBuildPlan == BuildPlanCall

SpecBuildPlan == InitBuildPlan /\ [][NextBuildPlan]_vars

\* C18: for any events, time window, calendar id, data source, errors and
\* actions, build_plan returns a plan with schema_version 1, a non-empty
\* plan_id equal to the date part of time_window.start, the envelope keys
\* summary, result, next_actions and errors, and proposed_actions equal to
\* the given action list in the same order, with result.proposed_actions
\* equal to its length.
C18_BuildPlanSchema ==
    (bp.done /\ bp # IdleBuildPlan) =>
        /\ bp.plan.schema_version = 1
        /\ bp.plan.plan_id # << >>
        /\ bp.plan.plan_id = date_text(parse_iso(bp.time_window.start))
        /\ {"summary", "result", "next_actions", "errors"} \subseteq DOMAIN bp.plan
        /\ bp.plan.errors = bp.errors
        /\ bp.plan.proposed_actions = bp.actions
        /\ bp.plan.result.proposed_actions = Len(bp.actions)

\* a plan was built from two actions, for fewer events than actions
C18_Witness ==
    /\ bp.done /\ bp # IdleBuildPlan
    /\ Len(bp.actions) = 2
    /\ bp.actions[1] # bp.actions[2]
    /\ Len(bp.events) = 1
    /\ bp.plan.proposed_actions = bp.actions
----------------------------------------------------------------------------
(* score_candidate as a pure function: queries against candidate records.   *)

SCORE_QUERIES ==
    { << >>, QueryBlank, QueryThe, QueryPantryOcr, QueryReceiptPhoto, QueryInventory }

SCORE_CANDIDATES ==
    { [title |-> title, description |-> description,
       desired_outcome |-> desired_outcome, domain |-> domain] :
        title \in { NoneText, TitleFixPantry, TitleTheReceipt },
        description \in { NoneText, DescriptionScan },
        desired_outcome \in { NoneText, OutcomeInventory },
        domain \in { NoDomain, DomainList(<< >>),
                     DomainList(<< TagPantry, TagCapturePadded >>),
                     DomainList(<< TagPantryItems >>),
                     DomainText(TagsText) } }

\* before the call has returned
NoScore == [total_score |-> -1]

InitScore ==
    /\ rt = IdleRoute
    /\ cf = IdleConf
    /\ IdleAgent
    /\ IdleCalendar
    /\ prefs_disk = NoDisk
    /\ prefs_log = << >>
    /\ bp = IdleBuildPlan
    /\ IdleMore
    /\ sc \in { [query |-> query, candidate |-> candidate, done |-> FALSE,
                 result |-> NoScore] :
                query \in SCORE_QUERIES, candidate \in SCORE_CANDIDATES }

ScoreCall ==
    /\ ~sc.done
    /\ sc' = [sc EXCEPT !.done = TRUE, !.result = score_candidate(sc.query, sc.candidate)]
    /\ UNCHANGED << rt, cf, agent_vars, cal_vars, prefs_disk, prefs_log, bp, more_vars >>

NextScore == ScoreCall

SpecScore == InitScore /\ [][NextScore]_vars

\* C19: score_candidate applied to an empty query returns total_score 0,
\* every breakdown contribution (the four fields and the bonus) 0 and empty
\* match sets for every field, for every candidate record.
C19_EmptyQueryScoresZero ==
    (sc.done /\ sc # IdleScore /\ sc.query = << >>) =>
        /\ sc.result.total_score = 0
        /\ sc.result.breakdown.title_score = 0
        /\ sc.result.breakdown.description_score = 0
        /\ sc.result.breakdown.desired_outcome_score = 0
        /\ sc.result.breakdown.domain_score = 0
        /\ sc.result.breakdown.bonus_score = 0
        /\ sc.result.matches.title = {}
        /\ sc.result.matches.description = {}
        /\ sc.result.matches.desired_outcome = {}
        /\ sc.result.matches.domain = {}
        /\ sc.result.matches.top_tokens = {}

\* the empty query was scored against a candidate with all four fields
C19_Witness ==
    /\ sc.done /\ sc # IdleScore
    /\ sc.query = << >>
    /\ sc.candidate.title = TitleFixPantry
    /\ sc.candidate.description = DescriptionScan
    /\ sc.candidate.desired_outcome = OutcomeInventory
    /\ sc.candidate.domain = DomainList(<< TagPantry, TagCapturePadded >>)
    /\ sc.result.total_score = 0

----------------------------------------------------------------------------
\* the token sets of the call: the query's and each field's
query_set == Range(scoring_tokenize(sc.query))

field_set(field) ==
    Range(scoring_tokenize(
        CASE field = "title" -> text_or_blank(sc.candidate.title)
          [] field = "description" -> text_or_blank(sc.candidate.description)
          [] field = "desired_outcome" -> text_or_blank(sc.candidate.desired_outcome)
          [] field = "domain" -> join_spaces(normalize_domain(sc.candidate.domain))))

\* score is weight x |query_tokens /\ field_tokens| / |query_tokens|, 0 when
\* either set is empty, and the match set is that intersection
field_as_stated(score, matches, field, weight) ==
    /\ matches = query_set \cap field_set(field)
    /\ IF query_set = {} \/ field_set(field) = {} THEN score = 0
       ELSE score * Cardinality(query_set)
                = weight * SCORE_UNIT * Cardinality(query_set \cap field_set(field))

\* the lowercased query appears in the title, description or desired outcome
query_appears ==
    /\ lower(sc.query) # << >>
    /\ \E text \in { text_or_blank(sc.candidate.title),
                      text_or_blank(sc.candidate.description),
                      text_or_blank(sc.candidate.desired_outcome) } :
          contains(lower(text), lower(sc.query))

\* the keywords of the table among the query tokens whose mapped set meets
\* the tokens of the candidate's domain tags
firing_keywords ==
    { i \in DOMAIN KEYWORD_DOMAIN_MAP :
        /\ KEYWORD_DOMAIN_MAP[i].keyword \in query_set
        /\ KEYWORD_DOMAIN_MAP[i].domains \cap field_set("domain") # {} }

\* C26: total_score is the sum over title, description, desired_outcome and
\* the joined domain tags of weight x |query_tokens /\ field_tokens| /
\* |query_tokens| (0 when either set is empty; weights 1, 2, 3, 4), plus 0.4
\* if the lowercased query (not empty) is a substring of the title,
\* description or desired outcome, plus 0.3 for each keyword of the table
\* that is among the query tokens and whose mapped set intersects the
\* candidate's domain tags; the breakdown entries sum to total_score and each
\* field's match set is exactly the intersection used.
C26_ScoreIsWeightedOverlap ==
    (sc.done /\ sc # IdleScore) =>
        LET breakdown == sc.result.breakdown
            matches == sc.result.matches
        IN  /\ field_as_stated(breakdown.title_score, matches.title, "title", 1)
            /\ field_as_stated(breakdown.description_score, matches.description,
                               "description", 2)
            /\ field_as_stated(breakdown.desired_outcome_score,
                               matches.desired_outcome, "desired_outcome", 3)
            /\ field_as_stated(breakdown.domain_score, matches.domain, "domain", 4)
            /\ 10 * breakdown.bonus_score
                  = (IF query_appears THEN 4 * SCORE_UNIT ELSE 0)
                        + 3 * SCORE_UNIT * Cardinality(firing_keywords)
            /\ sc.result.total_score
                  = breakdown.title_score + breakdown.description_score
                        + breakdown.desired_outcome_score + breakdown.domain_score
                        + breakdown.bonus_score

\* a query of three tokens met one token of the title and two keyword rules
\* fired on a tag of two words
C26_Witness ==
    /\ sc.done /\ sc # IdleScore
    /\ sc.query = QueryReceiptPhoto
    /\ sc.candidate.title = TitleTheReceipt
    /\ sc.candidate.domain = DomainList(<< TagPantryItems >>)
    /\ 3 * sc.result.breakdown.title_score = SCORE_UNIT
    /\ Cardinality(firing_keywords) >= 2
    /\ sc.result.total_score > 2 * SCORE_UNIT
----------------------------------------------------------------------------
(* _find_free_slot as a pure function: events and reserved intervals of one *)
(* day (minutes since midnight) against a window and a duration.            *)

Interval(start, end) == [start |-> start, end |-> end]

\* 08:00-09:00, 08:30-11:20, 09:00-10:00, 10:00-11:30, 11:10-11:40,
\* 13:00-13:15 and 06:40-07:30
SLOT_INTERVALS ==
    { Interval(480, 540), Interval(510, 680), Interval(540, 600),
      Interval(600, 690), Interval(670, 700), Interval(780, 795),
      Interval(400, 450) }

MaxSlotEvents == 2
MaxBlocked == 2

\* the two windows of the daily anchor and one that is empty
SLOT_WINDOWS ==
    { Interval(MORNING_START, MORNING_END),
      Interval(AFTERNOON_START, AFTERNOON_END),
      Interval(MORNING_END, MORNING_END) }

SLOT_DURATIONS == { ANCHOR_MINUTES, PREP_MINUTES }

lists_of(items, longest) ==
    UNION { [1..n -> items] : n \in 0..longest }

InitSlot ==
    /\ rt = IdleRoute
    /\ cf = IdleConf
    /\ IdleAgent
    /\ IdleCalendar
    /\ prefs_disk = NoDisk
    /\ prefs_log = << >>
    /\ bp = IdleBuildPlan
    /\ sc = IdleScore
    /\ ba = IdleActions
    /\ dec = IdleDecide
    /\ tq = IdleQueue
    /\ adm = IdleAdmin
    /\ fs \in { [events |-> events, blocked_intervals |-> blocked,
                 window |-> window, duration |-> duration,
                 done |-> FALSE, result |-> NoTime] :
                events \in lists_of(SLOT_INTERVALS, MaxSlotEvents),
                blocked \in lists_of(SLOT_INTERVALS, MaxBlocked),
                window \in SLOT_WINDOWS, duration \in SLOT_DURATIONS }

FindFreeSlotCall ==
    /\ ~fs.done
    /\ fs' = [fs EXCEPT !.done = TRUE,
                        !.result = find_free_slot(fs.events, fs.window.start,
                                                  fs.window.end, fs.duration,
                                                  fs.blocked_intervals)]
    /\ UNCHANGED << rt, cf, agent_vars, cal_vars, prefs_disk, prefs_log, bp, sc,
                    ba, dec, tq, adm >>

NextSlot == FindFreeSlotCall

SpecSlot == InitSlot /\ [][NextSlot]_vars

\* [t, t + duration) meets none of the intervals
clear_of(t, duration, intervals) ==
    \A i \in DOMAIN intervals :
        ~(t < intervals[i].end /\ t + duration > intervals[i].start)

\* t starts a duration-sized gap inside the window of the call
fits(t) ==
    /\ fs.window.start <= t
    /\ t + fs.duration <= fs.window.end
    /\ clear_of(t, fs.duration, fs.events)
    /\ clear_of(t, fs.duration, fs.blocked_intervals)

\* C21: _find_free_slot returns a time t with window_start <= t and
\* t + duration <= window_end whose slot [t, t + duration) overlaps no event
\* and no blocked interval, t is the earliest such time, and it returns none
\* exactly when no duration-sized gap fits before the window end.
C21_FreeSlotInWindow ==
    (fs.done /\ fs # IdleSlot) =>
        LET gaps == { t \in fs.window.start..fs.window.end : fits(t) }
        IN  IF fs.result = NoTime THEN gaps = {}
            ELSE /\ fits(fs.result)
                 /\ \A t \in gaps : fs.result <= t
----------------------------------------------------------------------------
(* _build_actions as a pure function: the analysed events of one day.       *)

TitleStandup == <<"S","t","a","n","d","u","p">>
TitleDoctorAppointment == <<"D","o","c","t","o","r"," ","a","p","p","o","i","n","t","m","e","n","t">>
TitleBusy == <<"B","u","s","y">>
TitleWorkshop == <<"W","o","r","k","s","h","o","p">>
TitleDailyPlanning == <<"D","a","i","l","y"," ","p","l","a","n","n","i","n","g">>
TitleFocus == <<"F","o","c","u","s"," ","t","i","m","e">>

\* three quarter-hour meetings: 3 minutes between the first two, none between
\* the last two
EventStandup == Event(<<"d","1">>, TitleStandup, 540, 555, << >>, FALSE, FALSE)
EventSync == Event(<<"d","2">>, TitleSync, 558, 573, << >>, FALSE, FALSE)
EventReview == Event(<<"d","3">>, TitleReview, 573, 588, << >>, FALSE, FALSE)
\* two medical events that start at 14:00, the second with a location
EventDoctorAppointment ==
    Event(<<"d","4">>, TitleDoctorAppointment, 840, 900, << >>, FALSE, FALSE)
EventDentist ==
    Event(<<"d","5">>, TitleDentist, 840, 870, LocationClinic, FALSE, FALSE)
\* private by its title, 13:30-14:00
EventBusy == Event(<<"d","6">>, TitleBusy, 810, 840, << >>, FALSE, TRUE)
\* a medical event marked private, 16:00-17:00
EventPrivateDoctor ==
    Event(<<"d","7">>, TitleDoctorAppointment, 960, 1020, << >>, FALSE, TRUE)
\* 08:30-11:20: ten minutes of the morning window are left
EventWorkshop == Event(<<"d","8">>, TitleWorkshop, 510, 680, << >>, FALSE, FALSE)
EventDailyPlanning ==
    Event(<<"d","9">>, TitleDailyPlanning, 480, 500, << >>, FALSE, FALSE)
\* the whole afternoon window, 13:00-17:30
EventFocus == Event(<<"d","0">>, TitleFocus, 780, 1050, << >>, FALSE, FALSE)

DAY_EVENTS ==
    { EventStandup, EventSync, EventReview, EventDoctorAppointment, EventDentist,
      EventBusy, EventPrivateDoctor, EventWorkshop, EventDailyPlanning, EventFocus }

MaxDayEvents == 3

\* up to MaxDayEvents different events in any order
EVENT_LISTS ==
    UNION { { events \in [1..n -> DAY_EVENTS] :
                \A i, j \in 1..n : i # j => events[i] # events[j] } :
            n \in 0..MaxDayEvents }

InitBuildActions ==
    /\ rt = IdleRoute
    /\ cf = IdleConf
    /\ IdleAgent
    /\ IdleCalendar
    /\ prefs_disk = NoDisk
    /\ prefs_log = << >>
    /\ bp = IdleBuildPlan
    /\ sc = IdleScore
    /\ fs = IdleSlot
    /\ dec = IdleDecide
    /\ tq = IdleQueue
    /\ adm = IdleAdmin
    /\ ba \in { [events |-> events, done |-> FALSE, actions |-> << >>,
                 blocked |-> << >>, debug_lines |-> << >>] :
                events \in EVENT_LISTS }

BuildActionsCall ==
    /\ ~ba.done
    /\ LET state == build_actions_state(ba.events)
       IN  ba' = [ba EXCEPT !.done = TRUE, !.actions = state.actions,
                            !.blocked = state.blocked,
                            !.debug_lines = state.debug_lines]
    /\ UNCHANGED << rt, cf, agent_vars, cal_vars, prefs_disk, prefs_log, bp, sc,
                    fs, dec, tq, adm >>

NextBuildActions == BuildActionsCall

SpecBuildActions == InitBuildActions /\ [][NextBuildActions]_vars

----------------------------------------------------------------------------
\* the events of the call in the order the heuristics visit them
visited == sorted_by_start(ba.events)

\* the proposed blocks of one kind that relate to the event
blocks_for(event, kind) ==
    { i \in DOMAIN ba.actions :
        /\ ba.actions[i].type = "create_block"
        /\ ba.actions[i].kind = kind
        /\ ba.actions[i].event_id = event.event_id }

\* the proposed action covers [start, end)
spans(action, start, end) ==
    /\ parse_iso(action.start) = start
    /\ parse_iso(action.end) = end

\* the prep and travel blocks proposed for the events visited before the k-th
reserved_before(k) ==
    { i \in DOMAIN ba.actions :
        /\ ba.actions[i].kind \in { KIND_PREP, KIND_TRAVEL_FROM }
        /\ \E j \in 1..(k - 1) : ba.actions[i].event_id = visited[j].event_id }

\* [start, end) meets no other event and no block reserved before the k-th
\* event was visited
prep_slot_open(k, start, end) ==
    /\ \A j \in DOMAIN visited :
          j # k => ~(start < visited[j].end /\ end > visited[j].start)
    /\ \A i \in reserved_before(k) :
          ~(start < parse_iso(ba.actions[i].end) /\ end > parse_iso(ba.actions[i].start))

\* C22: for each non-private analysed event whose title holds a medical
\* keyword the planner proposes exactly one create_block spanning
\* [start - 15 min, start] if and only if that interval overlaps no existing
\* event and no interval reserved earlier in the run, and none otherwise; a
\* private event yields no prep and no travel block, and its time range
\* counts among the existing events that block the slots of the others.
C22_MedicalPrep ==
    (ba.done /\ ba # IdleActions) =>
        \A k \in DOMAIN visited :
            LET event == visited[k]
                preps == blocks_for(event, KIND_PREP)
            IN  IF event.is_private
                THEN /\ preps = {}
                     /\ blocks_for(event, KIND_TRAVEL_FROM) = {}
                ELSE medical_keywords(event.title) # << >> =>
                        /\ \A i \in preps :
                              spans(ba.actions[i], event.start - 15, event.start)
                        /\ IF prep_slot_open(k, event.start - 15, event.start)
                           THEN Cardinality(preps) = 1
                           ELSE preps = {}

\* two medical events start at 14:00 and a private medical event follows:
\* one prep block at 13:45-14:00 and nothing for the private event
C22_Witness ==
    /\ ba.done /\ ba # IdleActions
    /\ { EventDoctorAppointment, EventDentist, EventPrivateDoctor }
          = { ba.events[i] : i \in DOMAIN ba.events }
    /\ Cardinality(blocks_for(EventDoctorAppointment, KIND_PREP)
                      \cup blocks_for(EventDentist, KIND_PREP)) = 1
    /\ blocks_for(EventPrivateDoctor, KIND_PREP) = {}

----------------------------------------------------------------------------
\* the suggest_shorten actions proposed for the k-th event and the next one
shortens_for(k) ==
    { i \in DOMAIN ba.actions :
        /\ ba.actions[i].type = "suggest_shorten"
        /\ ba.actions[i].event_id = visited[k].event_id
        /\ ba.actions[i].refs = << visited[k].event_id, visited[k + 1].event_id >> }

\* the debug lines of the back-to-back heuristic about the k-th pair
pair_lines(k) ==
    { i \in DOMAIN ba.debug_lines :
        /\ ba.debug_lines[i].heuristic = "Back-to-back"
        /\ ba.debug_lines[i].subject = << visited[k].title, visited[k + 1].title >> }

\* C23: for every pair of chronologically adjacent events, with
\* gap = next.start - current.end, a suggest_shorten action on the earlier
\* event (confidence 0.4, risk low) is proposed exactly when the gap is in
\* (0, 5] minutes; a negative gap gives no action and one trace line, a gap
\* above 5 minutes gives no action; the heuristic reserves no interval (the
\* reserved intervals are those of the proposed blocks).
C23_BackToBack ==
    (ba.done /\ ba # IdleActions) =>
        /\ \A k \in 1..(Len(visited) - 1) :
              LET gap == visited[k + 1].start - visited[k].end
              IN  /\ (gap > 0 /\ gap <= 5) <=> shortens_for(k) # {}
                  /\ Cardinality(shortens_for(k)) <= 1
                  /\ \A i \in shortens_for(k) :
                        /\ ba.actions[i].confidence = 40
                        /\ ba.actions[i].risk = "low"
                  /\ gap < 0 => Cardinality(pair_lines(k)) = 1
        /\ Len(ba.blocked)
              = Cardinality({ i \in DOMAIN ba.actions :
                                ba.actions[i].type = "create_block" })

----------------------------------------------------------------------------
\* the days on which events of the call start
event_days == { day_of(ba.events[i]) : i \in DOMAIN ba.events }

events_on(day) == SelectSeq(visited, LAMBDA event : day_of(event) = day)

\* the daily planning blocks proposed for the day
anchors_for(day) ==
    { i \in DOMAIN ba.actions :
        /\ ba.actions[i].type = "create_block"
        /\ ba.actions[i].kind = KIND_DAILY_ADMIN
        /\ ba.actions[i].refs = << two_digits(day) >> }

\* the blocks reserved when the day's anchor is looked for: the prep and
\* travel blocks and the anchors of the days before
reserved_for(day) ==
    { i \in DOMAIN ba.actions :
        \/ ba.actions[i].kind \in { KIND_PREP, KIND_TRAVEL_FROM }
        \/ \E earlier \in event_days : earlier < day /\ i \in anchors_for(earlier) }

\* [t, t + 20 min) lies in the window, meets no event of the day and no
\* reserved block
anchor_fits(t, day, window_start, window_end) ==
    /\ day * MINUTES_PER_DAY + window_start <= t
    /\ t + 20 <= day * MINUTES_PER_DAY + window_end
    /\ clear_of(t, 20, events_on(day))
    /\ \A i \in reserved_for(day) :
          ~(t < parse_iso(ba.actions[i].end) /\ t + 20 > parse_iso(ba.actions[i].start))

has_slot(day, window_start, window_end) ==
    \E t \in (day * MINUTES_PER_DAY + window_start)..(day * MINUTES_PER_DAY + window_end) :
        anchor_fits(t, day, window_start, window_end)

day_qualifies(day) ==
    /\ Len(events_on(day)) >= 3 \/ total_minutes(events_on(day)) >= 120
    /\ \A i \in DOMAIN events_on(day) :
          ~contains(lower(events_on(day)[i].title), KW_DAILY_PLANNING)

\* C24: a calendar day receives at most one daily planning create_block, and
\* receives one exactly when the day has at least 3 events or at least 120
\* cumulative event minutes, no event of the day has a title containing
\* "daily planning", and a free 20-minute slot exists in the 08:30-11:30
\* window or, failing that, in the 13:00-17:30 window; the block lies in the
\* afternoon window only when the morning window has no free slot, and a
\* qualified day with no free slot gets a trace line and no action.
C24_DailyAnchor ==
    (ba.done /\ ba # IdleActions) =>
        \A day \in event_days :
            LET anchors == anchors_for(day)
                morning == has_slot(day, 8 * 60 + 30, 11 * 60 + 30)
                afternoon == has_slot(day, 13 * 60, 17 * 60 + 30)
            IN  /\ Cardinality(anchors) <= 1
                /\ anchors # {} <=> (day_qualifies(day) /\ (morning \/ afternoon))
                /\ \A i \in anchors :
                      IF morning
                      THEN anchor_fits(parse_iso(ba.actions[i].start), day,
                                       8 * 60 + 30, 11 * 60 + 30)
                      ELSE anchor_fits(parse_iso(ba.actions[i].start), day,
                                       13 * 60, 17 * 60 + 30)
                /\ (day_qualifies(day) /\ ~morning /\ ~afternoon) =>
                      \E i \in DOMAIN ba.debug_lines :
                          /\ ba.debug_lines[i].heuristic = "Daily anchor"
                          /\ ba.debug_lines[i].subject = << two_digits(day) >>
                          /\ ba.debug_lines[i].outcome
                                = "qualified but no free 20m slot found."
----------------------------------------------------------------------------
(* _heuristic_decide as a pure function: a request against candidates.      *)

\* 2 + 3 + 3 + 2 + 1
RequestPantry ==
    [id |-> <<"r","1">>, title |-> TitleFixPantry, description |-> NoneText,
       desired_outcome |-> NoneText, domain |-> DomainList(<< <<" ","P","a","n","t","r","y"," ">> >>),
       status |-> <<"N","e","w">>, impact |-> <<"H","i","g","h">>, frequency |-> <<"d","a","i","l","y">>,
       recency_days |-> Days(3)]

\* 2 + 3 + 3 + 2 + 1, as the one before
RequestRecipes ==
    [id |-> <<"r","2">>, title |-> NoneText, description |-> NoneText,
       desired_outcome |-> NoneText, domain |-> DomainText(<<"t","o","o","l","s",","," ","r","e","c","i","p","e","s">>),
       status |-> <<"T","r","i","a","g","i","n","g">>, impact |-> <<"h","i","g","h">>, frequency |-> <<"D","a","i","l","y">>,
       recency_days |-> Days(7)]

\* 0 + 2 + 2 + 1 + 0
RequestDone ==
    [id |-> <<"r","3">>, title |-> NoneText, description |-> NoneText,
       desired_outcome |-> NoneText, domain |-> NoDomain,
       status |-> <<"D","o","n","e">>, impact |-> <<"m","e","d","i","u","m">>, frequency |-> <<"w","e","e","k","l","y">>,
       recency_days |-> Days(8)]

\* an impact the table lacks: 0 + 0 + 1 + 1 + 0
RequestUrgent ==
    [id |-> <<"r","4">>, title |-> NoneText, description |-> NoneText,
       desired_outcome |-> NoneText, domain |-> DomainList(<< >>),
       status |-> NoneText, impact |-> <<"u","r","g","e","n","t">>, frequency |-> <<"o","n","c","e">>,
       recency_days |-> Days(30)]

\* 2 + 1 + 0 + 0 + 0
RequestOld ==
    [id |-> <<"r","5">>, title |-> NoneText, description |-> NoneText,
       desired_outcome |-> NoneText, domain |-> NoDomain,
       status |-> <<"n","e","w">>, impact |-> <<"l","o","w">>, frequency |-> NoneText,
       recency_days |-> Days(31)]

\* a status with a leading blank: 0 + 0 + 4 + 0 + 1
RequestPadded ==
    [id |-> <<"r","6">>, title |-> NoneText, description |-> NoneText,
       desired_outcome |-> NoneText, domain |-> DomainText(<<"C","a","p","t","u","r","e">>),
       status |-> <<" ","n","e","w">>, impact |-> NoneText, frequency |-> <<"m","a","n","y","-","t","i","m","e","s","-","p","e","r","-","d","a","y">>,
       recency_days |-> NoDays]

\* nothing but an id
RequestBare ==
    [id |-> <<"r","7">>, title |-> NoneText, description |-> NoneText,
       desired_outcome |-> NoneText, domain |-> NoDomain,
       status |-> NoneText, impact |-> NoneText, frequency |-> NoneText,
       recency_days |-> NoDays]

DECIDE_CANDIDATES ==
    { RequestPantry,
      RequestRecipes,
      RequestDone,
      RequestUrgent,
      RequestOld,
      RequestPadded,
      RequestBare }

MaxCandidates == 3

\* up to MaxCandidates different candidates in any order
CANDIDATE_LISTS ==
    UNION { { candidates \in [1..n -> DECIDE_CANDIDATES] :
                \A i, j \in 1..n : i # j => candidates[i] # candidates[j] } :
            n \in 0..MaxCandidates }

\* a generic ask and one that names what it wants
DECIDE_REQUESTS == { ReqWhatBuild, QueryPantryOcr }

NoDecision == [selected_id |-> NoneText, confidence |-> 0, ranked |-> << >>,
               generic |-> FALSE]

InitDecide ==
    /\ rt = IdleRoute
    /\ cf = IdleConf
    /\ IdleAgent
    /\ IdleCalendar
    /\ prefs_disk = NoDisk
    /\ prefs_log = << >>
    /\ bp = IdleBuildPlan
    /\ sc = IdleScore
    /\ ba = IdleActions
    /\ fs = IdleSlot
    /\ tq = IdleQueue
    /\ adm = IdleAdmin
    /\ dec \in { [request_text |-> request_text, candidates |-> candidates,
                  done |-> FALSE, result |-> NoDecision] :
                 request_text \in DECIDE_REQUESTS, candidates \in CANDIDATE_LISTS }

HeuristicDecideCall ==
    /\ ~dec.done
    /\ dec' = [dec EXCEPT !.done = TRUE,
                          !.result = heuristic_decide(dec.request_text, dec.candidates)]
    /\ UNCHANGED << rt, cf, agent_vars, cal_vars, prefs_disk, prefs_log, bp, sc,
                    ba, fs, tq, adm >>

NextDecide == HeuristicDecideCall

SpecDecide == InitDecide /\ [][NextDecide]_vars

\* the place of the candidate with the id in the input list
input_place(id) == CHOOSE i \in DOMAIN dec.candidates : dec.candidates[i].id = id

\* the breakdown is the one the rules give for the candidate
breakdown_as_stated(breakdown, candidate) ==
    /\ breakdown.status_score
          = (IF lower(text_or_blank(candidate.status)) \in { <<"n","e","w">>, <<"t","r","i","a","g","i","n","g">> }
             THEN 2 ELSE 0)
    /\ breakdown.impact_score \in 0..3
    /\ breakdown.frequency_score \in 0..4
    /\ breakdown.recency_score
          = (IF candidate.recency_days.is_none THEN 0
             ELSE IF candidate.recency_days.days <= 7 THEN 2
             ELSE IF candidate.recency_days.days <= 30 THEN 1
             ELSE 0)
    /\ breakdown.domain_bonus
          = (IF \E tag \in Range(best_score_domain(candidate.domain)) :
                    tag \in DOMAIN_BONUS
             THEN 1 ELSE 0)

\* C25: for a generic ask each candidate's total is status_score (2 if the
\* status is new or triaging, else 0) + impact_score (0..3) + frequency_score
\* (0..4) + recency_score (2 if recency_days <= 7, 1 if <= 30, else 0, and 0
\* when absent) + domain_bonus (1 if a domain tag is in the bonus set, else
\* 0); the candidates are ranked by descending total, equal totals keep their
\* input order, and the selected candidate is the earliest input candidate
\* with the maximal total.
C25_GenericRanking ==
    (dec.done /\ dec # IdleDecide /\ is_generic_request(dec.request_text)) =>
        LET ranked == dec.result.ranked
        IN  /\ Len(ranked) = Len(dec.candidates)
            /\ \A i \in DOMAIN dec.candidates :
                  \E k \in DOMAIN ranked : ranked[k].id = dec.candidates[i].id
            /\ \A k \in DOMAIN ranked :
                  LET breakdown == ranked[k].breakdown
                  IN  /\ breakdown_as_stated(breakdown,
                                             dec.candidates[input_place(ranked[k].id)])
                      /\ ranked[k].score
                            = breakdown.status_score + breakdown.impact_score
                                + breakdown.frequency_score + breakdown.recency_score
                                + breakdown.domain_bonus
            /\ \A k \in 1..(Len(ranked) - 1) :
                  \/ ranked[k].score > ranked[k + 1].score
                  \/ /\ ranked[k].score = ranked[k + 1].score
                     /\ input_place(ranked[k].id) < input_place(ranked[k + 1].id)
            /\ IF dec.candidates = << >> THEN dec.result.selected_id = NoneText
               ELSE LET chosen == input_place(dec.result.selected_id)
                        total(i) == best_score(dec.candidates[i]).total_score
                    IN  /\ \A i \in DOMAIN dec.candidates : total(i) <= total(chosen)
                        /\ \A i \in 1..(chosen - 1) : total(i) < total(chosen)

\* a generic ask over three candidates of which the second and the third
\* share the top total: the second was selected
C25_Witness ==
    /\ dec.done /\ dec # IdleDecide
    /\ dec.request_text = ReqWhatBuild
    /\ dec.candidates = << RequestDone, RequestRecipes, RequestPantry >>
    /\ dec.result.selected_id = RequestRecipes.id
    /\ dec.result.ranked[1].score = 11
    /\ dec.result.ranked[2].score = 11
----------------------------------------------------------------------------
(* Capture and flush commands of tool_requests.py run one after another.    *)

MaxCommands == 4

CAPTURE_ARGS ==
    { CaptureArgs(ComplaintAnnoyed, NoneText),
      CaptureArgs(ComplaintQuoted, DesiredQuoted),
      CaptureArgs(ComplaintLong, NoneText) }

\* TOOL_REQUESTS_DB_ID is configured or not when a command runs
HAS_DB_ID == BOOLEAN

\* exit codes of codex exec
EXIT_CODES == { 0, 1 }

InitQueue ==
    /\ rt = IdleRoute
    /\ cf = IdleConf
    /\ IdleAgent
    /\ IdleCalendar
    /\ prefs_disk = NoDisk
    /\ prefs_log = << >>
    /\ bp = IdleBuildPlan
    /\ sc = IdleScore
    /\ ba = IdleActions
    /\ fs = IdleSlot
    /\ dec = IdleDecide
    /\ adm = IdleAdmin
    /\ tq = [queue |-> NoQueue, created |-> << >>, captured |-> << >>,
             last |-> NoCommand, commands |-> 0]

CmdCapture ==
    /\ tq.commands < MaxCommands
    /\ \E args \in CAPTURE_ARGS, has_db_id \in HAS_DB_ID, exit_code \in EXIT_CODES :
          tq' = cmd_capture(tq, args, has_db_id, exit_code)
    /\ UNCHANGED << rt, cf, agent_vars, cal_vars, prefs_disk, prefs_log, bp, sc,
                    ba, fs, dec, adm >>

CmdFlush ==
    /\ tq.commands < MaxCommands
    /\ \E has_db_id \in HAS_DB_ID, exit_codes \in [DOMAIN tq.queue.lines -> EXIT_CODES] :
          tq' = cmd_flush(tq, has_db_id, exit_codes)
    /\ UNCHANGED << rt, cf, agent_vars, cal_vars, prefs_disk, prefs_log, bp, sc,
                    ba, fs, dec, adm >>

NextQueue == CmdCapture \/ CmdFlush

SpecQueue == InitQueue /\ [][NextQueue]_vars

\* how often the entry stands in the list
occurrences(entries, entry) == Cardinality({ i \in DOMAIN entries : entries[i] = entry })

\* the entries the queue file holds, read back from its lines
queued_entries == [i \in DOMAIN tq.queue.lines |-> json_loads_line(tq.queue.lines[i])]

\* the sends of the last command that failed, by their place
failed_places == { i \in DOMAIN tq.last.sends : tq.last.sends[i].exit_code # 0 }

----------------------------------------------------------------------------
(* One call of an admin tool.                                               *)

ADMIN_TOOLS == { "admin_status", "admin_logs", "admin_restart" }

\* the environment of the server: the token set, or left to the fallback
ADMIN_ENVS ==
    { [ADMIN_TOKEN |-> admin_token, MCP_SERVICE_NAME |-> Unset] :
        admin_token \in { Unset, "s3cret" } }

\* tokens a caller supplies: none, empty, the set one, the fallback, another
ADMIN_TOKENS == { Unset, "", "s3cret", DEBUG_ADMIN_TOKEN, "guess" }

ADMIN_LINES == { 0, LINES_DEFAULT, 5000 }

\* what the system command returns
COMMAND_OUTCOMES == { [code |-> 0, output |-> "active"], [code |-> 3, output |-> ""] }

InitAdmin ==
    /\ rt = IdleRoute
    /\ cf = IdleConf
    /\ IdleAgent
    /\ IdleCalendar
    /\ prefs_disk = NoDisk
    /\ prefs_log = << >>
    /\ bp = IdleBuildPlan
    /\ sc = IdleScore
    /\ ba = IdleActions
    /\ fs = IdleSlot
    /\ dec = IdleDecide
    /\ tq = IdleQueue
    /\ adm \in { [tool |-> tool, token |-> token, env |-> env, confirm |-> confirm,
                  lines |-> lines, outcome |-> outcome, done |-> FALSE,
                  returned |-> NoReturn] :
                 tool \in ADMIN_TOOLS, token \in ADMIN_TOKENS, env \in ADMIN_ENVS,
                 confirm \in BOOLEAN, lines \in ADMIN_LINES, outcome \in COMMAND_OUTCOMES }

AdminCall ==
    /\ ~adm.done
    /\ adm' = [adm EXCEPT
                 !.done = TRUE,
                 !.returned =
                    IF adm.tool = "admin_status"
                    THEN admin_status(adm.token, adm.env, adm.outcome.code, adm.outcome.output)
                    ELSE IF adm.tool = "admin_logs"
                    THEN admin_logs(adm.token, adm.env, adm.lines,
                                    adm.outcome.code, adm.outcome.output)
                    ELSE admin_restart(adm.token, adm.env, adm.confirm,
                                       adm.outcome.code, adm.outcome.output)]
    /\ UNCHANGED << rt, cf, agent_vars, cal_vars, prefs_disk, prefs_log, bp, sc,
                    ba, fs, dec, tq >>

NextAdmin == AdminCall

SpecAdmin == InitAdmin /\ [][NextAdmin]_vars

\* the supplied token is the expected admin token
token_matches == adm.token # Unset /\ adm.token = get_admin_token(adm.env)

\* C30: admin_status, admin_logs and admin_restart run their system command
\* and return data only when the supplied token equals the expected admin
\* token; with a missing or wrong token they return the "Admin token
\* required." envelope with an empty result and run no command, and
\* admin_restart restarts the service only when confirm is true.
C30_AdminNeedsToken ==
    adm.done =>
        /\ ~token_matches =>
              /\ adm.returned.summary = << "Admin token required." >>
              /\ adm.returned.result = {}
              /\ adm.returned.commands = << >>
        /\ (adm.tool = "admin_restart" /\ adm.returned.commands # << >>) => adm.confirm

----------------------------------------------------------------------------
(* Claims about the calendar planner and apply.                             *)

\* the id names an action of the plan that apply may create: a create_block
\* with a start and an end inside the plan's time window
applicable(plan, id) ==
    \E i \in DOMAIN plan.proposed_actions :
        LET action == plan.proposed_actions[i]
        IN  /\ action.action_id = id
            /\ action.type = "create_block"
            /\ parse_iso(action.start) # NoTime
            /\ parse_iso(action.end) # NoTime
            /\ parse_iso(action.start) >= parse_iso(plan.time_window.start)
            /\ parse_iso(action.end) <= parse_iso(plan.time_window.end)

\* C6: when requested ids are applied against a stored plan, through
\* mcp_wrapper.apply or the apply command, the calendar receives a block for
\* an id only if the id names a create_block action of the plan with a start
\* and an end inside the plan's time window; every other requested id is
\* skipped with its own recorded error, the loop goes on to the remaining ids,
\* and every requested id is counted once, as applied or as skipped.
C6_ApplyValidation ==
    cal_out.looped =>
        /\ \A i \in DOMAIN cal_out.blocks :
              applicable(plan_file, cal_out.blocks[i].action_id)
        /\ \A i \in DOMAIN cal_out.action_ids :
              ~applicable(plan_file, cal_out.action_ids[i]) =>
                  /\ cal_out.action_ids[i] \in Range(cal_out.skipped)
                  /\ \E j \in DOMAIN cal_out.errors :
                        cal_out.errors[j].action_id = cal_out.action_ids[i]
        /\ Len(cal_out.applied) + Len(cal_out.skipped) = Len(cal_out.action_ids)
        /\ Len(cal_out.errors) = Len(cal_out.skipped)

\* the seed the claim expects: the kind, the referenced ids and the boundary
\* timestamp, joined with ":"
RECURSIVE joined(_)
joined(refs) ==
    IF refs = << >> THEN << >> ELSE <<":">> \o Head(refs) \o joined(Tail(refs))

canonical_seed(kind, refs, boundary) ==
    kind \o joined(refs) \o <<":">> \o isoformat(boundary)

\* C7: a second planner run on the same event list proposes the same actions
\* with the same action_ids in the same order, and every action_id is the
\* digest of the action kind, the referenced event ids (the day for a daily
\* anchor) and the boundary timestamp, and of nothing else.
C7_PlannerDeterministic ==
    /\ Len(plan_runs) = 2 =>
          plan_runs[2].proposed_actions = plan_runs[1].proposed_actions
    /\ \A r \in DOMAIN plan_runs :
          \A i \in DOMAIN plan_runs[r].proposed_actions :
              LET action == plan_runs[r].proposed_actions[i]
              IN  action.action_id
                    = ACT_PREFIX \o digest(canonical_seed(action.kind, action.refs,
                                                          action.boundary))

\* the planner ran at 09:00 and again at 09:05 on a listing of three events
\* and proposed a shorten suggestion, a prep block and a daily anchor
C7_Witness ==
    /\ Len(plan_runs) = 2
    /\ plan_runs[1].now # plan_runs[2].now
    /\ plan_file.time_window.start = isoformat(plan_runs[2].now)
    /\ { plan_runs[2].proposed_actions[i].kind :
            i \in DOMAIN plan_runs[2].proposed_actions }
         = { KIND_SHORTEN, KIND_PREP, KIND_DAILY_ADMIN }

\* C8: the proposed_actions of one planner run are deduplicated: no two of
\* them share an action_id, so an id names exactly one action of the plan.
C8_ActionIdsUnique ==
    plan_file.exists =>
        \A i, j \in DOMAIN plan_file.proposed_actions :
            i # j => plan_file.proposed_actions[i].action_id
                        # plan_file.proposed_actions[j].action_id

----------------------------------------------------------------------------
\* C11: a persisted plan is immutable once written: once the plan file of a
\* plan_id exists, no later plan or apply operation changes its content; in
\* particular generating a plan never overwrites a plan file already written.
C11_PlanImmutable ==
    [][(plan_file.exists /\ plan_file'.plan_id = plan_file.plan_id)
          => plan_file' = plan_file]_vars

----------------------------------------------------------------------------
\* C13: mcp_wrapper.apply creates a calendar event only when dry_run is false
\* and confirm is true; with dry_run false and confirm false it creates
\* nothing, reports every requested id as skipped and returns the error that
\* confirm=True is required; with dry_run true it creates nothing, whatever
\* confirm is (the ids it reports carry the dry-run prefix).
C13_WrapperConfirmGate ==
    cal_out.op = "wrapper_apply" =>
        /\ cal_out.blocks # << >> => (~cal_out.dry_run /\ cal_out.confirm)
        /\ (~cal_out.dry_run /\ ~cal_out.confirm) =>
              /\ cal_out.blocks = << >>
              /\ cal_out.applied = << >>
              /\ cal_out.skipped = cal_out.action_ids
              /\ cal_out.errors =
                    << [action_id |-> NoneText,
                        error |-> "confirm=True is required when dry_run is False."] >>
        /\ cal_out.dry_run =>
              /\ cal_out.blocks = << >>
              /\ \A i \in DOMAIN cal_out.applied :
                    cal_out.applied[i].result
                        = DRY_RUN_PREFIX \o cal_out.applied[i].action_id

\* an unconfirmed write of two ids, one of them an action the plan allows
C13_Witness ==
    /\ cal_out.op = "wrapper_apply"
    /\ ~cal_out.dry_run
    /\ ~cal_out.confirm
    /\ Len(cal_out.action_ids) = 2
    /\ applicable(plan_file, cal_out.action_ids[1])
    /\ cal_out.skipped = cal_out.action_ids

----------------------------------------------------------------------------
\* C17: a consumer of a plan file rejects (or upgrades) a plan whose
\* schema_version is not the known version: apply on such a plan creates no
\* calendar event and reports an error, it does not read the plan as if it
\* were version 1.
C17_UnknownSchemaRejected ==
    ( /\ cal_out.op # "idle"
      /\ plan_file.exists
      /\ plan_file.schema_version # SCHEMA_VERSION )
    => /\ cal_out.blocks = << >>
       /\ cal_out.errors # << >> \/ cal_out.exit_code # 0

----------------------------------------------------------------------------
\* two intervals given by their timestamps share more than an end point
intervals_overlap(a, b) ==
    /\ parse_iso(a.start) < parse_iso(b.end)
    /\ parse_iso(a.end) > parse_iso(b.start)

\* C20: in the output of one planner run, for any list of analysed
\* (non-all-day) events, no proposed create_block interval (medical prep,
\* travel buffer or daily planning anchor) overlaps an analysed event, and no
\* two proposed create_block intervals overlap each other.
C20_BlocksNeverOverlap ==
    plan_file.exists =>
        \A i \in DOMAIN plan_file.proposed_actions :
            plan_file.proposed_actions[i].type = "create_block" =>
                /\ \A e \in DOMAIN plan_file.events :
                      ~intervals_overlap(plan_file.proposed_actions[i], plan_file.events[e])
                /\ \A j \in DOMAIN plan_file.proposed_actions :
                      ( /\ j # i
                        /\ plan_file.proposed_actions[j].type = "create_block" )
                      => ~intervals_overlap(plan_file.proposed_actions[i],
                                            plan_file.proposed_actions[j])

----------------------------------------------------------------------------
\* C27: no calendar event is created from a plan whose data_source is not
\* mcp: a plan built after event fetching failed is marked mock, and on such
\* a plan both apply paths create nothing and count nothing as applied;
\* _apply_actions aborts (exit code 2) and mcp_wrapper.apply reports every
\* requested id as skipped with "Plan data_source is not mcp.".
C27_NoApplyFromMockPlan ==
    /\ (plan_file.exists /\ plan_file.errors # << >>) => plan_file.data_source = "mock"
    /\ (cal_out.op # "idle" /\ plan_file.data_source # "mcp") =>
          /\ cal_out.blocks = << >>
          /\ cal_out.applied = << >>
          /\ ~cal_out.looped
          /\ (cal_out.op = "apply_command" /\ ~cal_out.dry_run) => cal_out.exit_code = 2
          /\ ( /\ cal_out.op = "wrapper_apply"
               /\ cal_out.dry_run \/ cal_out.confirm
               /\ cal_out.action_ids # << >>
               /\ plan_file.exists )
             => /\ cal_out.skipped = cal_out.action_ids
                /\ cal_out.errors # << >>

\* the apply command was run without --dry-run for an action of a mock plan
C27_Witness ==
    /\ cal_out.op = "apply_command"
    /\ ~cal_out.dry_run
    /\ plan_file.exists /\ plan_file.data_source = "mock"
    /\ plan_file.proposed_actions # << >>
    /\ cal_out.action_ids = << plan_file.proposed_actions[1].action_id >>
    /\ plan_file.proposed_actions[1].type = "create_block"
    /\ cal_out.exit_code = 2

----------------------------------------------------------------------------
\* the stored plan holds the id as a create_block whose start and end parse
\* and lie inside the plan's time window
passes_validation(id) ==
    LET action == action_map_get(plan_file.proposed_actions, id)
    IN  /\ plan_file.exists /\ plan_file.data_source = "mcp"
        /\ action.exists
        /\ action.type = "create_block"
        /\ parse_iso(action.start) # NoTime /\ parse_iso(action.end) # NoTime
        /\ parse_iso(action.start) >= parse_iso(plan_file.time_window.start)
        /\ parse_iso(action.end) <= parse_iso(plan_file.time_window.end)

\* C28: with dry_run=false and confirm=true, for each requested action id
\* that passes validation mcp_wrapper.apply invokes the calendar block
\* creation for that action and, unless the external creation fails, records
\* the returned event id in created_event_ids and does not list the id as
\* skipped.
C28_WrapperCreatesBlocks ==
    ( /\ cal_out.op = "wrapper_apply"
      /\ ~cal_out.dry_run /\ cal_out.confirm
      /\ cal_out.looped )
    => \A k \in DOMAIN cal_out.action_ids :
          LET id == cal_out.action_ids[k]
          IN  passes_validation(id) =>
                \/ /\ \E i \in DOMAIN cal_out.blocks : cal_out.blocks[i].action_id = id
                   /\ \E i \in DOMAIN cal_out.applied : cal_out.applied[i].action_id = id
                   /\ \A i \in DOMAIN cal_out.skipped : cal_out.skipped[i] # id
                \/ \E i \in DOMAIN cal_out.errors :
                      /\ cal_out.errors[i].action_id = id
                      /\ cal_out.errors[i].error = "codex exec failed."
====
